---- MODULE Spec2Model ----
(***************************************************************************)
(* Cross-impact (MICMAC) sector analysis: the analytic engine              *)
(* (computeXY, computeCut, quadrantLabel, buildPreviewResult) and the      *)
(* matrix-table importer (normalizeNumberCell, parseMatrixTable) of the    *)
(* page module.                                                            *)
(*                                                                         *)
(* JavaScript values are records [t, n, d, s]:                             *)
(*   t = "fin"   a finite number, the reduced fraction n / d (d >= 1)      *)
(*   t = "big"   a finite number at the end of the range of doubles:       *)
(*               (n / d) * Number.MAX_VALUE, n # 0, |n / d| <= 1           *)
(*   t = "nan" | "inf" | "ninf"   the non-finite numbers                   *)
(*   t = "str"   a string, s its sequence of characters                    *)
(*   t = "null" | "undef" | "bool"   null, undefined, a boolean            *)
(*   t = "hole"  an empty slot of a sparse array (reads as undefined;      *)
(*               map, filter and some skip it)                             *)
(* Finite numbers are exact rationals: rounding of doubles is not          *)
(* modelled, overflow to Infinity is (on the "big" numbers).  A string is the sequence of its one-character strings, so    *)
(* trim, replace and Number() are computed character by character.         *)
(***************************************************************************)
EXTENDS Integers, Sequences, FiniteSets, TLC

VARIABLES variables, matrix, xy, result, rows, parsed, pc, csv, names,
          page, sent, before, files, heap, args

vars == <<variables, matrix, xy, result, rows, parsed, pc, csv, names,
          page, sent, before, files, heap, args>>

(***************************************************************************)
(* Bounds of the model.                                                    *)
(***************************************************************************)
MaxN == 3          \* engine: at most MaxN variables
MaxNonZero == 2    \* engine: at most MaxNonZero off-diagonal cells differ from 0
MaxVars == 2       \* importer: at most MaxVars header names in the base table

(***************************************************************************)
(* JavaScript values.                                                      *)
(***************************************************************************)
Abs(x) == IF x < 0 THEN -x ELSE x

RECURSIVE Gcd(_, _)
Gcd(a, b) == IF b = 0 THEN a ELSE Gcd(b, a % b)

Val(t, n, d, s) == [t |-> t, n |-> n, d |-> d, s |-> s]

\* the finite number num / den, den > 0, reduced
Frac(num, den) ==
  LET g == Gcd(Abs(num), den)
  IN  Val("fin", num \div g, den \div g, <<>>)

Fin(i) == Val("fin", i, 1, <<>>)
Zero == Fin(0)
NaN == Val("nan", 0, 1, <<>>)
PosInf == Val("inf", 0, 1, <<>>)
NegInf == Val("ninf", 0, 1, <<>>)
Null == Val("null", 0, 1, <<>>)
Undef == Val("undef", 0, 1, <<>>)
BoolTrue == Val("bool", 1, 1, <<>>)
Hole == Val("hole", 0, 1, <<>>)
StrV(s) == Val("str", 0, 1, s)

\* (num / den) * Number.MAX_VALUE, den > 0: beyond MAX_VALUE it is +-Infinity
Big(num, den) ==
  IF num = 0 THEN Zero
  ELSE IF num > den THEN PosInf
  ELSE IF -num > den THEN NegInf
  ELSE LET g == Gcd(Abs(num), den)
       IN  Val("big", num \div g, den \div g, <<>>)

MaxValue == Big(1, 1)
NegMaxValue == Big(-1, 1)

\* typeof v === "number"
IsNumber(v) == v.t \in {"fin", "big", "nan", "inf", "ninf"}

\* Number.isFinite(v)
IsFinite(v) == v.t \in {"fin", "big"}

\* v ?? dflt
Nullish(v, dflt) == IF v.t \in {"null", "undef"} THEN dflt ELSE v

\* a + b on numbers
JsAdd(a, b) ==
  IF a.t = "nan" \/ b.t = "nan" THEN NaN
  ELSE IF a.t = "inf" THEN (IF b.t = "ninf" THEN NaN ELSE PosInf)
  ELSE IF a.t = "ninf" THEN (IF b.t = "inf" THEN NaN ELSE NegInf)
  ELSE IF b.t = "inf" THEN PosInf
  ELSE IF b.t = "ninf" THEN NegInf
  ELSE IF a.t = "big" /\ b.t = "big" THEN Big(a.n * b.d + b.n * a.d, a.d * b.d)
  ELSE IF a.t = "big" THEN a
  ELSE IF b.t = "big" THEN b
  ELSE Frac(a.n * b.d + b.n * a.d, a.d * b.d)

\* a / len for a length len >= 1
JsDivLen(a, len) ==
  IF a.t = "fin" THEN Frac(a.n, a.d * len)
  ELSE IF a.t = "big" THEN Big(a.n, a.d * len)
  ELSE a

\* a < b on numbers: false as soon as one side is NaN
JsLt(a, b) ==
  IF a.t = "nan" \/ b.t = "nan" THEN FALSE
  ELSE IF a.t = "inf" \/ b.t = "ninf" THEN FALSE
  ELSE IF a.t = "ninf" \/ b.t = "inf" THEN TRUE
  ELSE IF a.t = "big" /\ b.t # "big" THEN a.n < 0
  ELSE IF a.t # "big" /\ b.t = "big" THEN b.n > 0
  ELSE a.n * b.d < b.n * a.d

\* a >= b on numbers: false as soon as one side is NaN
JsGe(a, b) ==
  IF a.t = "nan" \/ b.t = "nan" THEN FALSE
  ELSE ~JsLt(a, b)

(***************************************************************************)
(* The analytic engine.                                                    *)
(***************************************************************************)
\* matrix[i]?.[j], with 1-based i and j
Cell(m, i, j) ==
  IF i \in 1..Len(m) THEN (IF j \in 1..Len(m[i]) THEN m[i][j] ELSE Undef)
  ELSE Undef

\* driving[i] once the inner loop has passed column j: the cells of row i
\* are added in the order of j, the diagonal being skipped unless withDiag
RECURSIVE XYDriving(_, _, _, _)
XYDriving(m, i, j, withDiag) ==
  IF j = 0 THEN Zero
  ELSE IF i = j /\ ~withDiag THEN XYDriving(m, i, j - 1, withDiag)
  ELSE JsAdd(XYDriving(m, i, j - 1, withDiag), Nullish(Cell(m, i, j), Zero))

\* dependency[j] once the outer loop has passed row i: the cells of column j
\* are added in the order of i, the diagonal being skipped unless withDiag
RECURSIVE XYDependency(_, _, _, _)
XYDependency(m, j, i, withDiag) ==
  IF i = 0 THEN Zero
  ELSE IF i = j /\ ~withDiag THEN XYDependency(m, j, i - 1, withDiag)
  ELSE JsAdd(XYDependency(m, j, i - 1, withDiag), Nullish(Cell(m, i, j), Zero))

\* the same loops without "if (i === j) continue"
computeXY_Diag(m) ==
  LET n == Len(m)
  IN  [dependency |-> [j \in 1..n |-> XYDependency(m, j, n, TRUE)],
       driving |-> [i \in 1..n |-> XYDriving(m, i, n, TRUE)]]

computeXY(m) ==
  LET n == Len(m)
  IN  [dependency |-> [j \in 1..n |-> XYDependency(m, j, n, FALSE)],
       driving |-> [i \in 1..n |-> XYDriving(m, i, n, FALSE)]]

\* values.reduce((acc, value) => acc + value, 0)
RECURSIVE Reduce(_, _, _)
Reduce(values, k, acc) ==
  IF k > Len(values) THEN acc ELSE Reduce(values, k + 1, JsAdd(acc, values[k]))

\* the mean taken over one element too many
computeCut_OffByOne(values) ==
  IF Len(values) = 0 THEN Zero
  ELSE JsDivLen(Reduce(values, 1, Zero), Len(values) + 1)

computeCut(values) ==
  IF Len(values) = 0 THEN Zero
  ELSE JsDivLen(Reduce(values, 1, Zero), Len(values))

quadrantLabel(x, y, xCut, yCut) ==
  IF JsGe(y, yCut) /\ JsLt(x, xCut) THEN "Determinante"
  ELSE IF JsGe(y, yCut) /\ JsGe(x, xCut) THEN "Reguladora"
  ELSE IF JsLt(y, yCut) /\ JsGe(x, xCut) THEN "Resultado"
  ELSE "Autonoma"

\* the same search without "i !== j"
hasValue_Diag(m, n) ==
  \E i \in 1..n : \E j \in 1..n :
     IsFinite(Cell(m, i, j)) /\ m[i][j] # Zero

\* the loop of buildPreviewResult that looks for a usable cell
hasValue(m, n) ==
  \E i \in 1..n : \E j \in 1..n :
     i # j /\ IsFinite(Cell(m, i, j)) /\ m[i][j] # Zero

\* the same loop keeping the first label assigned to a name
RECURSIVE QuadrantLoop_FirstWins(_, _, _, _, _, _)
QuadrantLoop_FirstWins(vs, dep, drv, xCut, yCut, k) ==
  IF k = 0 THEN [name \in {} |-> "Autonoma"]
  ELSE LET q == QuadrantLoop_FirstWins(vs, dep, drv, xCut, yCut, k - 1)
           label == quadrantLabel(dep[k], drv[k], xCut, yCut)
       IN  [name \in (DOMAIN q) \cup {vs[k]} |->
              IF name \in DOMAIN q THEN q[name] ELSE label]

\* quadrants[variables[i]] = ... for i = k..n, a later i overwriting an earlier
RECURSIVE QuadrantLoop(_, _, _, _, _, _)
QuadrantLoop(vs, dep, drv, xCut, yCut, k) ==
  IF k = 0 THEN [name \in {} |-> "Autonoma"]
  ELSE LET q == QuadrantLoop(vs, dep, drv, xCut, yCut, k - 1)
           label == quadrantLabel(dep[k], drv[k], xCut, yCut)
       IN  [name \in (DOMAIN q) \cup {vs[k]} |->
              IF name = vs[k] THEN label ELSE q[name]]

\* null is <<>>, a result r is <<r>>
NoResult == <<>>

\* no page is mounted
NoPage == <<>>

buildPreviewResult(vs, m) ==
  LET n == Len(vs)
  IN  IF n = 0 \/ Len(m) # n THEN NoResult
      ELSE IF ~hasValue(m, n) THEN NoResult
      ELSE LET r == computeXY(m)
               xCut == computeCut(r.dependency)
               yCut == computeCut(r.driving)
           IN  << [variables |-> vs,
                   dependencia_x |-> r.dependency,
                   motricidad_y |-> r.driving,
                   x_cut |-> xCut,
                   y_cut |-> yCut,
                   quadrants |-> QuadrantLoop(vs, r.dependency, r.driving,
                                              xCut, yCut, n)] >>

(***************************************************************************)
(* Inputs of the engine: a name list and a matrix.  The matrix is n-by-n   *)
(* with one value on the whole diagonal and at most MaxNonZero             *)
(* off-diagonal cells different from 0, or such a matrix (with fewer than  *)
(* MaxNonZero such cells) with a row dropped, a row added, the first or    *)
(* last row cut short or made longer.                                      *)
(***************************************************************************)
NameChars == <<"A", "B", "C", "D", "E", "F">>
NameAt(i) == StrV(<<NameChars[i]>>)

OffDiagValues == {Fin(1), Fin(2), NaN, PosInf, NegInf}
DiagValues == {Zero, Fin(5), NaN}

OffDiag(n) == {p \in (1..n) \X (1..n) : p[1] # p[2]}

SquareMatrix(n, S, f, dg) ==
  [i \in 1..n |-> [j \in 1..n |->
     IF i = j THEN dg ELSE IF <<i, j>> \in S THEN f[<<i, j>>] ELSE Zero]]

ShortRow(m, r) == [m EXCEPT ![r] = SubSeq(m[r], 1, Len(m[r]) - 1)]
LongRow(m, r) == [m EXCEPT ![r] = Append(m[r], Fin(1))]
DropRow(m) == SubSeq(m, 1, Len(m) - 1)
AddRow(m) == Append(m, [j \in 1..Len(m) |-> Zero])

Misshapen(m) ==
  {AddRow(m)} \cup (IF Len(m) = 0 THEN {} ELSE {DropRow(m)})
  \cup {ShortRow(m, r) : r \in {1, Len(m)} \cap (1..Len(m))}
  \cup {LongRow(m, r) : r \in {1, Len(m)} \cap (1..Len(m))}

\* the names A, B, ..., or the same with the last name equal to the first
NameLists(n) ==
  {[i \in 1..n |-> NameAt(i)]} \cup
  (IF n >= 2 THEN {[i \in 1..n |-> IF i = n THEN NameAt(1) ELSE NameAt(i)]} ELSE {})

InitEngine ==
  /\ \E n \in 0..MaxN :
       \E S \in SUBSET OffDiag(n) :
         /\ Cardinality(S) <= MaxNonZero
         /\ \E f \in [S -> OffDiagValues] :
              \/ \E dg \in DiagValues :
                   /\ matrix = SquareMatrix(n, S, f, dg)
                   /\ variables = [i \in 1..n |-> NameAt(i)]
              \/ /\ matrix = SquareMatrix(n, S, f, Zero)
                 /\ variables \in NameLists(n)
              \/ /\ Cardinality(S) < MaxNonZero
                 /\ matrix \in Misshapen(SquareMatrix(n, S, f, Zero))
                 /\ variables = [i \in 1..n |-> NameAt(i)]
  /\ xy = <<>>
  /\ result = NoResult
  /\ rows = <<>>
  /\ parsed = <<>>
  /\ csv = <<>>
  /\ names = <<>>
  /\ page = NoPage
  /\ sent = <<>>
  /\ before = <<>>
  /\ args = <<>>
  /\ heap = <<>>
  /\ files = <<>>
  /\ pc = "input"

\* computeXY applied to the matrix
CallComputeXY ==
  /\ pc = "input"
  /\ xy' = <<computeXY(matrix)>>
  /\ pc' = "xy"
  /\ UNCHANGED <<variables, matrix, result, rows, parsed, csv, names,
               page, sent, before, files, heap, args>>

\* buildPreviewResult applied to the name list and the matrix
CallBuildPreviewResult ==
  /\ pc = "xy"
  /\ result' = buildPreviewResult(variables, matrix)
  /\ pc' = "done"
  /\ UNCHANGED <<variables, matrix, xy, rows, parsed, csv, names,
               page, sent, before, files, heap, args>>

NextEngine == CallComputeXY \/ CallBuildPreviewResult

SpecEngine == InitEngine /\ [][NextEngine]_vars

(***************************************************************************)
(* Strings.                                                                *)
(***************************************************************************)
DigitChars == <<"0", "1", "2", "3", "4", "5", "6", "7", "8", "9">>
IsDigit(c) == \E i \in 1..Len(DigitChars) : DigitChars[i] = c
DigitVal(c) == (CHOOSE i \in 1..Len(DigitChars) : DigitChars[i] = c) - 1

RECURSIVE Pow10(_)
Pow10(k) == IF k = 0 THEN 1 ELSE 10 * Pow10(k - 1)

\* the value of a sequence of digits
RECURSIVE DigitsVal(_)
DigitsVal(s) ==
  IF s = <<>> THEN 0
  ELSE DigitsVal(SubSeq(s, 1, Len(s) - 1)) * 10 + DigitVal(s[Len(s)])

AllDigits(s) == \A i \in 1..Len(s) : IsDigit(s[i])

\* the decimal digits of a natural number
RECURSIVE NatChars(_)
NatChars(k) ==
  IF k < 10 THEN <<DigitChars[k + 1]>>
  ELSE Append(NatChars(k \div 10), DigitChars[(k % 10) + 1])

\* s.trim(), the only white space of the model being " "
RECURSIVE TrimLeft(_)
TrimLeft(s) == IF s # <<>> /\ Head(s) = " " THEN TrimLeft(Tail(s)) ELSE s

RECURSIVE TrimRight(_)
TrimRight(s) ==
  IF s # <<>> /\ s[Len(s)] = " " THEN TrimRight(SubSeq(s, 1, Len(s) - 1)) ELSE s

Trim(s) == TrimRight(TrimLeft(s))

\* s.replace(",", "."): the first comma only
ReplaceComma(s) ==
  IF \E i \in 1..Len(s) : s[i] = ","
  THEN LET k == CHOOSE i \in 1..Len(s) :
                   s[i] = "," /\ \A h \in 1..(i - 1) : s[h] # ","
       IN  [s EXCEPT ![k] = "."]
  ELSE s

\* String(v), for a finite number with a denominator that divides 10
ToStr(v) ==
  IF v.t = "str" THEN v.s
  ELSE IF v.t = "fin" THEN
     (IF v.n < 0 THEN <<"-">> ELSE <<>>) \o
     (IF v.d = 1 THEN NatChars(Abs(v.n))
      ELSE LET tenths == (Abs(v.n) * 10) \div v.d
           IN  NatChars(tenths \div 10) \o <<".">> \o NatChars(tenths % 10))
  ELSE IF v.t = "nan" THEN <<"N", "a", "N">>
  ELSE IF v.t = "inf" THEN <<"I", "n", "f", "i", "n", "i", "t", "y">>
  ELSE IF v.t = "ninf" THEN <<"-", "I", "n", "f", "i", "n", "i", "t", "y">>
  ELSE IF v.t = "bool" THEN <<"t", "r", "u", "e">>
  ELSE IF v.t = "null" THEN <<"n", "u", "l", "l">>
  ELSE <<"u", "n", "d", "e", "f", "i", "n", "e", "d">>

InfinityWord == <<"I", "n", "f", "i", "n", "i", "t", "y">>

\* Number(s) for a string of digits, ".", "+", "-", " " and other characters:
\* white space is trimmed, "" is 0, a decimal literal is its value,
\* Infinity with or without a sign is that infinity, the rest NaN
ToNumber(s) ==
  LET t == Trim(s)
      neg == t # <<>> /\ Head(t) = "-"
      u == IF t # <<>> /\ Head(t) \in {"-", "+"} THEN Tail(t) ELSE t
      dots == {i \in 1..Len(u) : u[i] = "."}
  IN  IF t = <<>> THEN Zero
      ELSE IF u = InfinityWord THEN (IF neg THEN NegInf ELSE PosInf)
      ELSE IF dots = {} THEN
         (IF u # <<>> /\ AllDigits(u)
          THEN Fin(IF neg THEN -DigitsVal(u) ELSE DigitsVal(u)) ELSE NaN)
      ELSE IF Cardinality(dots) = 1 THEN
         LET k == CHOOSE i \in dots : TRUE
             ip == SubSeq(u, 1, k - 1)
             fp == SubSeq(u, k + 1, Len(u))
             num == DigitsVal(ip) * Pow10(Len(fp)) + DigitsVal(fp)
         IN  IF AllDigits(ip) /\ AllDigits(fp) /\ Len(ip) + Len(fp) >= 1
             THEN Frac(IF neg THEN -num ELSE num, Pow10(Len(fp))) ELSE NaN
      ELSE NaN

(***************************************************************************)
(* The matrix-table importer.  A table is a sequence of rows, a row a      *)
(* sequence of cells; an empty cell of a sheet is a hole of its row.       *)
(***************************************************************************)
\* arr[i - 1], with a 1-based i: a hole or an index past the end is undefined
Get(arr, i) ==
  IF i \in 1..Len(arr) THEN (IF arr[i].t = "hole" THEN Undef ELSE arr[i])
  ELSE Undef

\* String(cell ?? "").trim()
CellText(cell) == Trim(ToStr(Nullish(cell, StrV(<<>>))))

Err(kind, a, b, name, expected) ==
  [kind |-> kind, a |-> a, b |-> b, name |-> name, expected |-> expected]
NoErr == Err("none", 0, 0, Undef, Undef)

Failed(e) == [ok |-> FALSE, variables |-> <<>>, matrix |-> <<>>, error |-> e]
Dataset(vs, m) == [ok |-> TRUE, variables |-> vs, matrix |-> m, error |-> NoErr]

\* a returned number, or the error thrown
Returned(v) == [ok |-> TRUE, val |-> v, error |-> NoErr]
Thrown(e) == [ok |-> FALSE, val |-> Undef, error |-> e]

normalizeNumberCell(cell, rowIndex, colIndex) ==
  IF IsNumber(cell) /\ IsFinite(cell) THEN Returned(cell)
  ELSE IF cell.t = "str" /\ ReplaceComma(Trim(cell.s)) = <<>> THEN Returned(Zero)
  ELSE IF cell.t = "str" /\ IsFinite(ToNumber(ReplaceComma(Trim(cell.s))))
       THEN Returned(ToNumber(ReplaceComma(Trim(cell.s))))
  ELSE IF cell.t \in {"null", "undef"} THEN Returned(Zero)
  ELSE Thrown(Err("nonNumeric", rowIndex, colIndex, Undef, Undef))

\* (rows[0] ?? []).slice(1).map((cell) => String(cell ?? "").trim())
headerCells(tbl) ==
  LET h == SubSeq(tbl[1], 2, Len(tbl[1]))
  IN  [k \in 1..Len(h) |-> IF h[k].t = "hole" THEN Hole ELSE StrV(CellText(h[k]))]

\* row.some((cell) => cell !== null && cell !== undefined && String(cell).trim() !== "")
someCellFilled(row) ==
  \E i \in 1..Len(row) :
     /\ row[i].t \notin {"hole", "null", "undef"}
     /\ Trim(ToStr(row[i])) # <<>>

\* every row after the header, blank or not
bodyRows_All(tbl) == SubSeq(tbl, 2, Len(tbl))

\* rows.slice(1).filter(...)
bodyRows(tbl) == SelectSeq(SubSeq(tbl, 2, Len(tbl)), someCellFilled)

\* the test without "rowName &&"
rowNameMismatch_Blank(rowName, expected) == StrV(rowName) # expected

\* rowName && rowName !== variables[rowIndex]
rowNameMismatch(rowName, expected) == rowName # <<>> /\ StrV(rowName) # expected

\* the callback of body.map for the row at the 0-based rowIndex: its values
RowValues(row, rowIndex, vs) ==
  [c \in 1..Len(vs) |->
     IF vs[c].t = "hole" THEN Hole
     ELSE normalizeNumberCell(Get(row, c + 1), rowIndex + 2, c + 1).val]

\* the callback of body.map for the row at the 0-based rowIndex: what it throws
RowError(row, rowIndex, vs) ==
  LET rowName == CellText(Get(row, 1))
      bad == {c \in 1..Len(vs) :
                /\ vs[c].t # "hole"
                /\ ~normalizeNumberCell(Get(row, c + 1), rowIndex + 2, c + 1).ok}
  IN  IF rowNameMismatch(rowName, Get(vs, rowIndex + 1))
      THEN Err("rowLabel", rowIndex + 2, 0, StrV(rowName), Get(vs, rowIndex + 1))
      ELSE IF bad # {}
      THEN LET c == CHOOSE x \in bad : \A y \in bad : x <= y
           IN  normalizeNumberCell(Get(row, c + 1), rowIndex + 2, c + 1).error
      ELSE NoErr

parseMatrixTable(tbl) ==
  IF Len(tbl) = 0 THEN Failed(Err("noData", 0, 0, Undef, Undef))
  ELSE LET hs == headerCells(tbl)
           unnamed == {k \in 1..Len(hs) : hs[k].t # "hole" /\ hs[k].s = <<>>}
           body == bodyRows(tbl)
           failing == {r \in 1..Len(body) : RowError(body[r], r - 1, hs) # NoErr}
       IN  IF Len(hs) = 0 THEN Failed(Err("noHeader", 0, 0, Undef, Undef))
           ELSE IF unnamed # {}
           THEN Failed(Err("missingName",
                           CHOOSE k \in unnamed : \A h \in unnamed : k <= h,
                           0, Undef, Undef))
           ELSE IF Len(body) # Len(hs)
           THEN Failed(Err("rowCount", Len(hs), Len(body), Undef, Undef))
           ELSE IF failing # {}
           THEN LET r == CHOOSE x \in failing : \A y \in failing : x <= y
                IN  Failed(RowError(body[r], r - 1, hs))
           ELSE Dataset(hs, [r \in 1..Len(body) |-> RowValues(body[r], r - 1, hs)])

(***************************************************************************)
(* Inputs of the importer: the table of n named variables with m data      *)
(* rows, then at most two cells replaced and at most one blank row         *)
(* inserted; or the empty table.                                           *)
(***************************************************************************)
Space == <<" ">>

CellUniverse ==
  {Hole, Null, Undef, Fin(7), NaN, PosInf, BoolTrue,
   StrV(<<>>), StrV(Space), StrV(<<" ", "A", " ">>), StrV(<<"B">>),
   StrV(<<"1", ",", "5">>), StrV(<<" ", "2", " ">>), StrV(<<"x">>),
   StrV(<<"1", ",", "2", ",", "3">>), StrV(<<".">>)}

SecondEdits == {Hole, StrV(<<"x">>)}

BlankRow == <<Null, StrV(Space)>>

BaseTable(n, m) ==
  << <<StrV(<<>>)>> \o [k \in 1..n |-> NameAt(k)] >> \o
  [i \in 1..m |->
     <<IF i <= n THEN NameAt(i) ELSE Hole>> \o
     [j \in 1..n |-> IF i = j THEN Zero ELSE Fin(1)]]

\* a row ends with its last filled slot
RECURSIVE StripHoles(_)
StripHoles(row) ==
  IF row # <<>> /\ row[Len(row)].t = "hole"
  THEN StripHoles(SubSeq(row, 1, Len(row) - 1)) ELSE row

PutCell(tbl, r, c, v) ==
  [tbl EXCEPT ![r] = StripHoles(
     [i \in 1..(IF c > Len(tbl[r]) THEN c ELSE Len(tbl[r])) |->
        IF i = c THEN v ELSE IF i <= Len(tbl[r]) THEN tbl[r][i] ELSE Hole])]

InsertRow(tbl, p, row) ==
  SubSeq(tbl, 1, p - 1) \o <<row>> \o SubSeq(tbl, p, Len(tbl))

Positions(tbl, n) == (1..Len(tbl)) \X (1..(n + 2))

WithBlankRow(tbl) ==
  {tbl} \cup {InsertRow(tbl, p, BlankRow) : p \in 2..(Len(tbl) + 1)}

InitImport ==
  /\ \/ rows = <<>>
     \/ \E n \in 0..MaxVars :
          \E m \in {n - 1, n, n + 1} \cap Nat :
            LET base == BaseTable(n, m)
            IN  \/ rows \in WithBlankRow(base)
                \/ \E p \in Positions(base, n) : \E v \in CellUniverse :
                     LET once == PutCell(base, p[1], p[2], v)
                     IN  \/ rows \in WithBlankRow(once)
                         \/ \E q \in Positions(base, n) \ {p} : \E w \in SecondEdits :
                              rows \in WithBlankRow(PutCell(once, q[1], q[2], w))
  /\ parsed = <<>>
  /\ variables = <<>>
  /\ matrix = <<>>
  /\ xy = <<>>
  /\ result = NoResult
  /\ csv = <<>>
  /\ names = <<>>
  /\ page = NoPage
  /\ sent = <<>>
  /\ before = <<>>
  /\ args = <<>>
  /\ heap = <<>>
  /\ files = <<>>
  /\ pc = "table"

\* parseMatrixTable applied to the table; <<d>> is its outcome
CallParseMatrixTable ==
  /\ pc = "table"
  /\ parsed' = <<parseMatrixTable(rows)>>
  /\ pc' = "parsed"
  /\ UNCHANGED <<variables, matrix, xy, result, rows, csv, names,
               page, sent, before, files, heap, args>>

NextImport == CallParseMatrixTable

SpecImport == InitImport /\ [][NextImport]_vars

(***************************************************************************)
(* The CSV files of a dataset (datasetToCsvFiles), the reading of a CSV    *)
(* text into a table (XLSX.read and sheet_to_json with header: 1 and       *)
(* blankrows: false) and the variables table (parseVariablesRows).         *)
(***************************************************************************)
NL == "\n"
Comma == ","

\* parts.join(sep)
RECURSIVE Join(_, _)
Join(parts, sep) ==
  IF parts = <<>> THEN <<>>
  ELSE IF Len(parts) = 1 THEN parts[1]
  ELSE parts[1] \o <<sep>> \o Join(Tail(parts), sep)

\* the text join gives an element: "" for an empty slot, null or undefined
JoinText(v) == IF v.t \in {"hole", "null", "undef"} THEN <<>> ELSE ToStr(v)

\* the text of Number(v ?? 0) inside a join; map leaves an empty slot empty
NumberText(v) == IF v.t = "hole" THEN <<>> ELSE ToStr(Nullish(v, Zero))

NameWord == <<"n", "a", "m", "e">>

\* the texts of the two files: nothing is quoted or escaped
datasetToCsvFiles(vs, m) ==
  LET rowOf(i) == IF i \in 1..Len(m) THEN m[i] ELSE <<>>
      header == Join(<< <<>> >> \o [i \in 1..Len(vs) |-> JoinText(vs[i])], Comma)
      body == [i \in 1..Len(vs) |->
                 IF vs[i].t = "hole" THEN <<>>
                 ELSE Join(<<ToStr(vs[i])>> \o
                           [j \in 1..Len(rowOf(i)) |-> NumberText(rowOf(i)[j])], Comma)]
  IN  [varsContent |-> Join(<<NameWord>> \o [i \in 1..Len(vs) |-> JoinText(vs[i])], NL),
       matrixContent |-> Join(<<header>> \o body, NL)]

\* the fields of a text between the separators sep
RECURSIVE Split(_, _)
Split(text, sep) ==
  IF \E i \in 1..Len(text) : text[i] = sep
  THEN LET k == CHOOSE i \in 1..Len(text) :
                   text[i] = sep /\ \A h \in 1..(i - 1) : text[h] # sep
       IN  <<SubSeq(text, 1, k - 1)>> \o Split(SubSeq(text, k + 1, Len(text)), sep)
  ELSE <<text>>

\* the cell read from an unquoted field: an empty field leaves no cell, a
\* field that reads as a number is that number, any other field is its text
CsvCell(field) ==
  IF field = <<>> THEN Hole
  ELSE IF Trim(field) = <<>> THEN StrV(field)
  ELSE IF IsFinite(ToNumber(field)) THEN ToNumber(field)
  ELSE StrV(field)

\* the rows of a CSV text, the rows without a cell left out
CsvRows(text) ==
  LET lines == Split(text, NL)
      rowOf(line) == LET fs == Split(line, Comma)
                     IN  StripHoles([k \in 1..Len(fs) |-> CsvCell(fs[k])])
  IN  SelectSeq([i \in 1..Len(lines) |-> rowOf(lines[i])], LAMBDA row : row # <<>>)

UpperChars ==
  <<"A", "B", "C", "D", "E", "F", "G", "H", "I", "J", "K", "L", "M",
    "N", "O", "P", "Q", "R", "S", "T", "U", "V", "W", "X", "Y", "Z">>
LowerChars ==
  <<"a", "b", "c", "d", "e", "f", "g", "h", "i", "j", "k", "l", "m",
    "n", "o", "p", "q", "r", "s", "t", "u", "v", "w", "x", "y", "z">>

\* s.toLowerCase()
Lower(s) ==
  [k \in 1..Len(s) |->
     IF \E u \in 1..Len(UpperChars) : UpperChars[u] = s[k]
     THEN LowerChars[CHOOSE u \in 1..Len(UpperChars) : UpperChars[u] = s[k]]
     ELSE s[k]]

HeaderWords ==
  {<<"n", "a", "m", "e">>,
   <<"v", "a", "r", "i", "a", "b", "l", "e">>,
   <<"n", "o", "m", "b", "r", "e">>}

\* rows[0].map((cell) => String(cell ?? "").trim().toLowerCase())
variablesHeader(tbl) ==
  [k \in 1..Len(tbl[1]) |->
     IF tbl[1][k].t = "hole" THEN Hole ELSE StrV(Lower(CellText(tbl[1][k])))]

\* the positions findIndex tests true
headerHits(tbl) ==
  {k \in 1..Len(tbl[1]) :
     variablesHeader(tbl)[k].t = "str" /\ variablesHeader(tbl)[k].s \in HeaderWords}

\* the rows read as names: every row, the first included
dataRows_All(tbl) == tbl

\* nameIdx >= 0 ? rows.slice(1) : rows
dataRows(tbl) == IF headerHits(tbl) # {} THEN Tail(tbl) ELSE tbl

\* the 1-based column of the names
nameIdx(tbl) ==
  IF headerHits(tbl) # {}
  THEN CHOOSE k \in headerHits(tbl) : \A h \in headerHits(tbl) : k <= h
  ELSE 1

parseVariablesRows(tbl) ==
  IF Len(tbl) = 0 THEN <<>>
  ELSE LET rs == dataRows(tbl)
           all == [r \in 1..Len(rs) |-> StrV(CellText(Get(rs[r], nameIdx(tbl))))]
       IN  SelectSeq(all, LAMBDA v : v.s # <<>>)

\* the names read, or the error thrown
NamesRead(ns) == [ok |-> TRUE, names |-> ns, error |-> NoErr]
NamesFailed(e) == [ok |-> FALSE, names |-> <<>>, error |-> e]

parseCsvVariables(text) ==
  LET ns == parseVariablesRows(CsvRows(text))
  IN  IF Len(ns) = 0 THEN NamesFailed(Err("noNames", 0, 0, Undef, Undef))
      ELSE NamesRead(ns)

parseCsvMatrix(text) == parseMatrixTable(CsvRows(text))

(***************************************************************************)
(* Round trip of a dataset through its two CSV files.  The dataset has at  *)
(* most MaxVars names, the names A, B, ... with at most one replaced, and  *)
(* a square matrix of zeros with at most MaxNonZero cells replaced.        *)
(***************************************************************************)
OddNames ==
  {StrV(<<"A", ",", "B">>), StrV(<<"0", "7">>), StrV(<<"7">>),
   StrV(<<"n", "a", "m", "e">>), NameAt(1)}

CellNumbers == {Fin(1), Frac(3, 2), Fin(-2)}

AllCells(n) == (1..n) \X (1..n)

InitRoundTrip ==
  /\ \E n \in 1..MaxVars :
       /\ \/ variables = [i \in 1..n |-> NameAt(i)]
          \/ \E k \in 1..n : \E nm \in OddNames :
               variables = [i \in 1..n |-> IF i = k THEN nm ELSE NameAt(i)]
       /\ \E S \in SUBSET AllCells(n) :
            /\ Cardinality(S) <= MaxNonZero
            /\ \E f \in [S -> CellNumbers] :
                 matrix = [i \in 1..n |-> [j \in 1..n |->
                             IF <<i, j>> \in S THEN f[<<i, j>>] ELSE Zero]]
  /\ xy = <<>>
  /\ result = NoResult
  /\ rows = <<>>
  /\ parsed = <<>>
  /\ csv = <<>>
  /\ names = <<>>
  /\ page = NoPage
  /\ sent = <<>>
  /\ before = <<>>
  /\ args = <<>>
  /\ heap = <<>>
  /\ files = <<>>
  /\ pc = "dataset"

\* datasetToCsvFiles applied to the dataset
CallDatasetToCsvFiles ==
  /\ pc = "dataset"
  /\ csv' = <<datasetToCsvFiles(variables, matrix)>>
  /\ pc' = "files"
  /\ UNCHANGED <<variables, matrix, xy, result, rows, parsed, names,
               page, sent, before, files, heap, args>>

\* parseCsvVariables and parseCsvMatrix applied to the texts of the files
CallParseCsv ==
  /\ pc = "files"
  /\ names' = <<parseCsvVariables(csv[1].varsContent)>>
  /\ rows' = CsvRows(csv[1].matrixContent)
  /\ parsed' = <<parseCsvMatrix(csv[1].matrixContent)>>
  /\ pc' = "read"
  /\ UNCHANGED <<variables, matrix, xy, result, csv,
               page, sent, before, files, heap, args>>

NextRoundTrip == CallDatasetToCsvFiles \/ CallParseCsv

SpecRoundTrip == InitRoundTrip /\ [][NextRoundTrip]_vars

(***************************************************************************)
(* Inputs of parseVariablesRows: a table of at most MaxRows rows of one    *)
(* or two cells, none ending with an empty slot.                           *)
(***************************************************************************)
MaxRows == 3       \* variables table: at most MaxRows rows

DataCellUniverse ==
  {Hole, StrV(<<" ", "N", "a", "m", "e">>), StrV(<<"A">>),
   StrV(<<" ", "B", " ">>), StrV(Space)}

FirstCellUniverse == DataCellUniverse \cup {StrV(<<"n", "o", "m", "b", "r", "e">>)}

\* the first cell of a row of two cells
LeadCellUniverse == {Hole, StrV(<<"A">>), StrV(<<" ", "N", "a", "m", "e">>)}

RowsOver(U) ==
  {<<c>> : c \in U \ {Hole}} \cup {<<c, e>> : c \in LeadCellUniverse, e \in U \ {Hole}}

InitVariables ==
  /\ \E r \in 0..MaxRows :
       \E first \in RowsOver(FirstCellUniverse) :
         \E rest \in [2..r -> RowsOver(DataCellUniverse)] :
           rows = [i \in 1..r |-> IF i = 1 THEN first ELSE rest[i]]
  /\ variables = <<>>
  /\ matrix = <<>>
  /\ xy = <<>>
  /\ result = NoResult
  /\ parsed = <<>>
  /\ csv = <<>>
  /\ names = <<>>
  /\ page = NoPage
  /\ sent = <<>>
  /\ before = <<>>
  /\ args = <<>>
  /\ heap = <<>>
  /\ files = <<>>
  /\ pc = "sheet"

\* parseVariablesRows applied to the table
CallParseVariablesRows ==
  /\ pc = "sheet"
  /\ names' = <<NamesRead(parseVariablesRows(rows))>>
  /\ pc' = "names"
  /\ UNCHANGED <<variables, matrix, xy, result, rows, parsed, csv,
               page, sent, before, files, heap, args>>

NextVariables == CallParseVariablesRows

SpecVariables == InitVariables /\ [][NextVariables]_vars

(***************************************************************************)
(* The page: its state, loadGraph, parseExcelFile and handleImportFiles    *)
(* with persistImportedDataset, refreshMatrixFromApi and compute.  A       *)
(* nullable state is <<>> (null) or <<v>>.  Every await of a request is a  *)
(* step of its own; the request succeeds or fails.                         *)
(***************************************************************************)
VarWord == <<"V", "a", "r", " ">>

\* the page as mounted: the state declarations of Page
PageDefault ==
  [step |-> 1, projectId |-> <<>>,
   importing |-> FALSE, importError |-> <<>>, importMessage |-> <<>>,
   heatmap |-> <<>>, heatmapError |-> <<>>, heatmapLoading |-> FALSE,
   graph |-> <<>>, graphError |-> <<>>, graphLoading |-> FALSE,
   minW |-> Zero, directed |-> TRUE]

DefaultVariables == [i \in 1..4 |-> StrV(VarWord \o NatChars(i))]
DefaultMatrix == [i \in 1..4 |-> [j \in 1..4 |-> Zero]]

\* the error of a request that failed
HttpError == Err("http", 0, 0, Undef, Undef)

\* the threshold test that lets every negative or non-finite value through
badThreshold_None(minWeight) == FALSE

\* !Number.isFinite(minWeight) || minWeight < 0
badThreshold(minWeight) == ~IsFinite(minWeight) \/ JsLt(minWeight, Zero)

\* loadGraph up to its await: the page after it, and whether a request is sent
loadGraph(pg, minWeight, isDirected) ==
  IF pg.projectId = <<>> THEN [page |-> pg, request |-> FALSE]
  ELSE IF badThreshold(minWeight)
  THEN [page |-> [pg EXCEPT !.graphError = <<Err("threshold", 0, 0, Undef, Undef)>>,
                            !.graph = <<>>],
        request |-> FALSE]
  ELSE [page |-> [pg EXCEPT !.graphLoading = TRUE], request |-> TRUE]

\* loadGraph after its await
graphSettled(pg, ok, data) ==
  IF ok THEN [pg EXCEPT !.graph = <<data>>, !.graphError = <<>>, !.graphLoading = FALSE]
  ELSE [pg EXCEPT !.graph = <<>>, !.graphError = <<HttpError>>, !.graphLoading = FALSE]

\* the graph the server answers a request with
GraphOut(minWeight, isDirected) == [min_weight |-> minWeight, directed |-> isDirected]

\* the effect on variables.length: the matrix resized to n-by-n, diagonal 0
resizeMatrix(prev, n) ==
  [i \in 1..n |-> [j \in 1..n |->
     IF i = j THEN Zero ELSE Nullish(Cell(prev, i, j), Zero)]]

\* name.toLowerCase().includes(word)
Includes(name, word) ==
  \E k \in 0..(Len(name) - Len(word)) :
     SubSeq(Lower(name), k + 1, k + Len(word)) = word

\* sheetNames.find(...): the 1-based position of the first such sheet, or 0
findSheet(sheets, word) ==
  IF \E i \in 1..Len(sheets) : Includes(sheets[i].name, word)
  THEN CHOOSE i \in 1..Len(sheets) :
         /\ Includes(sheets[i].name, word)
         /\ \A h \in 1..(i - 1) : ~Includes(sheets[h].name, word)
  ELSE 0

\* the variables sheet replaces the header names whatever its length
useVarsSheet_Always(vs, header) == TRUE

\* vars.length === parsed.variables.length
useVarsSheet(vs, header) == Len(vs) = Len(header)

\* the sheet of the matrix: the first whose name holds "mat", else the
\* first whose name holds "matriz", else the first sheet
matrixSheet(sheets) ==
  IF findSheet(sheets, <<"m", "a", "t">>) # 0
  THEN findSheet(sheets, <<"m", "a", "t">>)
  ELSE IF findSheet(sheets, <<"m", "a", "t", "r", "i", "z">>) # 0
  THEN findSheet(sheets, <<"m", "a", "t", "r", "i", "z">>)
  ELSE 1

\* if (varsSheet) { const vars = ...; if (vars.length === ...) parsed.variables = vars }
withVarsSheet(d, sheets, vi) ==
  IF ~d.ok \/ vi = 0 THEN d
  ELSE IF useVarsSheet(parseVariablesRows(sheets[vi].rows), d.variables)
       THEN Dataset(parseVariablesRows(sheets[vi].rows), d.matrix)
       ELSE d

\* a workbook is the sequence of its sheets, [name, rows]
parseExcelFile(sheets) ==
  IF Len(sheets) = 0 THEN Failed(Err("noSheets", 0, 0, Undef, Undef))
  ELSE withVarsSheet(parseMatrixTable(sheets[matrixSheet(sheets)].rows), sheets,
                     findSheet(sheets, <<"v", "a", "r">>))

\* parsed.variables.some((name, idx) => name !== names[idx])
listsMismatch(header, ns) ==
  \E k \in 1..Len(header) : header[k].t # "hole" /\ header[k] # Get(ns, k)

\* the test that compares the lengths only
csvListsDiffer_LengthOnly(header, ns) ==
  IF Len(ns) # Len(header) THEN Err("csvCount", 0, 0, Undef, Undef) ELSE NoErr

\* the two tests handleImportFiles makes on the lists of the CSV files
csvListsDiffer(header, ns) ==
  IF Len(ns) # Len(header) THEN Err("csvCount", 0, 0, Undef, Undef)
  ELSE IF listsMismatch(header, ns) THEN Err("csvMismatch", 0, 0, Undef, Undef)
  ELSE NoErr

\* the CSV branch of handleImportFiles once the two files are read: ns is
\* the outcome of parseCsvVariables, d that of parseCsvMatrix
csvDataset(ns, d) ==
  IF ~ns.ok THEN Failed(ns.error)
  ELSE IF ~d.ok THEN d
  ELSE IF csvListsDiffer(d.variables, ns.names) # NoErr
       THEN Failed(csvListsDiffer(d.variables, ns.names))
  ELSE Dataset(ns.names, d.matrix)

\* the dataset handleImportFiles hands to persistImportedDataset, or the
\* error thrown before
importDataset(fl) ==
  IF fl.kind = "xlsx" THEN parseExcelFile(fl.sheets)
  ELSE IF fl.kind = "csv"
  THEN csvDataset(parseCsvVariables(fl.varsContent), parseCsvMatrix(fl.matrixContent))
  ELSE Failed(Err("noFiles", 0, 0, Undef, Undef))

\* catch (err) { setImportError(...) } finally { setImporting(false) }
importFailed(pg, e) == [pg EXCEPT !.importError = <<e>>, !.importing = FALSE]

(***************************************************************************)
(* The server.  Its code is not part of the page: after an import it       *)
(* stores the dataset it was sent, and it computes a result with the       *)
(* engine's formulas.                                                      *)
(***************************************************************************)
ServerSnapshot(d) ==
  [variables |-> [i \in 1..Len(d.variables) |-> StrV(JoinText(d.variables[i]))],
   matrix |-> [i \in 1..Len(d.matrix) |-> [j \in 1..Len(d.matrix[i]) |->
                 IF d.matrix[i][j].t = "hole" THEN Zero ELSE d.matrix[i][j]]]]

ComputeOut(vs, m) ==
  LET r == computeXY(m)
      xCut == computeCut(r.dependency)
      yCut == computeCut(r.driving)
  IN  << [variables |-> vs,
          dependencia_x |-> r.dependency,
          motricidad_y |-> r.driving,
          x_cut |-> xCut,
          y_cut |-> yCut,
          quadrants |-> QuadrantLoop(vs, r.dependency, r.driving, xCut, yCut, Len(vs))] >>

HeatmapOut(vs, m, lo, hi) ==
  [variables |-> vs, scale |-> [min |-> lo, max |-> hi], matrix |-> m]

(***************************************************************************)
(* Inputs of handleImportFiles: no file, files that are neither a          *)
(* workbook nor two CSV files, two CSV files, or a workbook.  The lists of *)
(* names and the matrix header have at most MaxVars entries.               *)
(***************************************************************************)
NamesOver(n) == [1..n -> {NameAt(1), NameAt(2)}]

\* the text of a variables file, with or without the header line
NamesText(ns, withHeader) ==
  Join((IF withHeader THEN <<NameWord>> ELSE <<>>) \o [i \in 1..Len(ns) |-> ns[i].s], NL)

HeaderFields(n) == [1..n -> {<<"A">>, <<"B">>, <<>>}]

\* the text of a matrix file: the header fields hf, then one row per field,
\* labelled with the name of its position where lb says so
MatrixText(hf, lb) ==
  Join(<<Join(<< <<>> >> \o hf, Comma)>> \o
       [i \in 1..Len(hf) |->
          Join(<<IF lb[i] THEN <<NameChars[i]>> ELSE <<>>>> \o
               [j \in 1..Len(hf) |-> IF i = j THEN <<"0">> ELSE <<"1">>], Comma)],
       NL)

VarsTexts ==
  {NamesText(ns, h) : ns \in UNION {NamesOver(n) : n \in 0..MaxVars}, h \in BOOLEAN}

\* the rows are all labelled or all unlabelled
MatrixTexts ==
  UNION {{MatrixText(hf, [i \in 1..n |-> lb]) : hf \in HeaderFields(n), lb \in BOOLEAN} :
           n \in 1..MaxVars}

SheetMatriz == <<"M", "a", "t", "r", "i", "z">>
SheetVariables == <<"V", "a", "r", "i", "a", "b", "l", "e", "s">>
SheetOther == <<"H", "o", "j", "a", "1">>

Sheet(name, tbl) == [name |-> name, rows |-> tbl]

\* workbooks: no sheet, a sheet named Matriz or a sheet of another name
\* holding a matrix, a sheet named Variables, or two sheets
Workbooks ==
  {<<>>} \cup
  {<<Sheet(n, CsvRows(mt))>> : n \in {SheetMatriz, SheetOther}, mt \in MatrixTexts} \cup
  {<<Sheet(SheetVariables, CsvRows(vt))>> : vt \in VarsTexts} \cup
  {<<Sheet(SheetMatriz, CsvRows(mt)), Sheet(SheetVariables, CsvRows(vt))>> :
     mt \in MatrixTexts, vt \in VarsTexts} \cup
  {<<Sheet(SheetVariables, CsvRows(vt)), Sheet(SheetOther, CsvRows(mt))>> :
     mt \in MatrixTexts, vt \in VarsTexts}

OtherFiles == [kind |-> "other"]
CsvFiles(vt, mt) == [kind |-> "csv", varsContent |-> vt, matrixContent |-> mt]
ExcelFile(sheets) == [kind |-> "xlsx", sheets |-> sheets]

InitPageImport ==
  /\ variables = DefaultVariables
  /\ matrix = DefaultMatrix
  /\ \/ /\ page = PageDefault
        /\ result = NoResult
     \/ /\ page = [PageDefault EXCEPT !.projectId = <<1>>, !.step = 3]
        /\ result = NoResult
     \/ /\ page = [PageDefault EXCEPT !.projectId = <<1>>, !.step = 4]
        /\ result = ComputeOut(DefaultVariables, DefaultMatrix)
  /\ \/ files = <<>>
     \/ files = <<OtherFiles>>
     \/ \E vt \in VarsTexts : \E mt \in MatrixTexts : files = <<CsvFiles(vt, mt)>>
     \/ \E wb \in Workbooks : files = <<ExcelFile(wb)>>
  /\ xy = <<>>
  /\ rows = <<>>
  /\ parsed = <<>>
  /\ csv = <<>>
  /\ names = <<>>
  /\ sent = <<>>
  /\ before = <<>>
  /\ args = <<>>
  /\ heap = <<>>
  /\ pc = "idle"

\* what the page showed when the handler was called
Shown == [variables |-> variables, matrix |-> matrix, result |-> result,
          step |-> page.step]

\* handleImportFiles up to the upload request of persistImportedDataset
HandleImportFiles ==
  /\ pc = "idle"
  /\ before' = <<Shown>>
  /\ IF files = <<>>
     THEN /\ pc' = "settled"
          /\ UNCHANGED <<page, parsed, csv, sent>>
     ELSE IF page.projectId = <<>>
     THEN /\ page' = [page EXCEPT !.importError = <<Err("noProject", 0, 0, Undef, Undef)>>,
                                  !.importMessage = <<>>]
          /\ pc' = "settled"
          /\ UNCHANGED <<parsed, csv, sent>>
     ELSE \E d \in {importDataset(files[1])} :
            LET cleared == [page EXCEPT !.importError = <<>>, !.importMessage = <<>>]
            IN  /\ parsed' = <<d>>
                /\ IF d.ok
                   THEN /\ page' = [cleared EXCEPT !.importing = TRUE]
                        /\ csv' = <<datasetToCsvFiles(d.variables, d.matrix)>>
                        /\ sent' = Append(sent, "import")
                        /\ pc' = "import"
                   ELSE /\ page' = importFailed(cleared, d.error)
                        /\ pc' = "settled"
                        /\ UNCHANGED <<csv, sent>>
  /\ UNCHANGED <<variables, matrix, xy, result, rows, names, files, heap, args>>

\* the upload settles; on success refreshMatrixFromApi asks for the snapshot
ImportResponse ==
  /\ pc = "import"
  /\ \/ /\ sent' = Append(sent, "matrix")
        /\ pc' = "refresh"
        /\ UNCHANGED page
     \/ /\ page' = importFailed(page, HttpError)
        /\ pc' = "settled"
        /\ UNCHANGED sent
  /\ UNCHANGED <<variables, matrix, xy, result, rows, parsed, csv, names, before, files, heap, args>>

\* the snapshot request settles; on success the snapshot is stored, the
\* resize effect runs if the number of variables changed, the result is
\* cleared and compute asks for the computation
RefreshResponse ==
  /\ pc = "refresh"
  /\ \/ LET snap == ServerSnapshot(parsed[1])
            vs == IF Len(snap.variables) # 0 THEN snap.variables ELSE variables
            mx == IF Len(snap.matrix) # 0 THEN snap.matrix ELSE matrix
        IN  /\ variables' = vs
            /\ matrix' = IF Len(vs) # Len(variables) THEN resizeMatrix(mx, Len(vs)) ELSE mx
            /\ result' = NoResult
            /\ page' = [page EXCEPT !.heatmapError = <<>>, !.graphError = <<>>]
            /\ sent' = Append(sent, "compute")
            /\ pc' = "compute"
     \/ /\ page' = importFailed(page, HttpError)
        /\ pc' = "settled"
        /\ UNCHANGED <<variables, matrix, result, sent>>
  /\ UNCHANGED <<xy, rows, parsed, csv, names, before, files, heap, args>>

\* the computation settles; on success the result is stored and the
\* heatmap asked for
ComputeResponse ==
  /\ pc = "compute"
  /\ \/ /\ result' = ComputeOut(ServerSnapshot(parsed[1]).variables,
                                ServerSnapshot(parsed[1]).matrix)
        /\ page' = [page EXCEPT !.heatmapLoading = TRUE]
        /\ sent' = Append(sent, "heatmap")
        /\ pc' = "heatmap"
     \/ /\ page' = importFailed(page, HttpError)
        /\ pc' = "settled"
        /\ UNCHANGED <<result, sent>>
  /\ UNCHANGED <<variables, matrix, xy, rows, parsed, csv, names, before, files, heap, args>>

\* what follows compute in persistImportedDataset and handleImportFiles:
\* setStep(4), the message, importing reset, and the effect on step that
\* calls loadGraph again when step changed
importDone(pg) ==
  LET done == [pg EXCEPT !.step = 4, !.importMessage = <<files[1].kind>>,
                         !.importing = FALSE]
  IN  IF pg.step # 4 THEN loadGraph(done, done.minW, done.directed)
      ELSE [page |-> done, request |-> FALSE]

\* the heatmap request settles either way, then compute calls loadGraph
HeatmapResponse ==
  /\ pc = "heatmap"
  /\ \E ok \in BOOLEAN :
       LET hm == IF ok
                 THEN [page EXCEPT !.heatmap = <<HeatmapOut(variables, matrix, Zero, Fin(3))>>,
                                   !.heatmapError = <<>>, !.heatmapLoading = FALSE]
                 ELSE [page EXCEPT !.heatmap = <<>>,
                                   !.heatmapError = <<HttpError>>, !.heatmapLoading = FALSE]
           lg == loadGraph(hm, page.minW, page.directed)
       IN  IF lg.request
           THEN /\ page' = lg.page
                /\ sent' = Append(sent, "graph")
                /\ pc' = "graph"
           ELSE /\ page' = importDone(lg.page).page
                /\ sent' = IF importDone(lg.page).request THEN Append(sent, "graph") ELSE sent
                /\ pc' = "settled"
  /\ UNCHANGED <<variables, matrix, xy, result, rows, parsed, csv, names, before, files, heap, args>>

\* the graph request of compute settles either way and the import completes
GraphResponse ==
  /\ pc = "graph"
  /\ \E ok \in BOOLEAN :
       LET g == graphSettled(page, ok, GraphOut(page.minW, page.directed))
       IN  /\ page' = importDone(g).page
           /\ sent' = IF importDone(g).request THEN Append(sent, "graph") ELSE sent
  /\ pc' = "settled"
  /\ UNCHANGED <<variables, matrix, xy, result, rows, parsed, csv, names, before, files, heap, args>>

\* the graph request of the effect on step settles
EffectGraphResponse ==
  /\ pc = "settled"
  /\ page.graphLoading
  /\ \E ok \in BOOLEAN :
       page' = graphSettled(page, ok, GraphOut(page.minW, page.directed))
  /\ UNCHANGED <<variables, matrix, xy, result, rows, parsed, csv, names, sent,
                 before, files, pc, heap, args>>

NextPageImport ==
  \/ HandleImportFiles
  \/ ImportResponse
  \/ RefreshResponse
  \/ ComputeResponse
  \/ HeatmapResponse
  \/ GraphResponse
  \/ EffectGraphResponse

SpecPageImport == InitPageImport /\ [][NextPageImport]_vars

(***************************************************************************)
(* Arrays as objects.  The heap maps an address to the array stored        *)
(* there; the name list is at address 1, the matrix (the addresses of its  *)
(* rows) at address 2 and row i at address 2 + i.  buildPreviewResult      *)
(* stores the arrays of its result at the next free addresses.             *)
(***************************************************************************)
VariablesRef == 1
MatrixRef == 2

HeapOf(vs, m) ==
  [a \in 1..(2 + Len(m)) |->
     IF a = VariablesRef THEN vs
     ELSE IF a = MatrixRef THEN [i \in 1..Len(m) |-> 2 + i]
     ELSE m[a - 2]]

\* the arrays a caller reads through the two references
VariablesAt(h) == h[VariablesRef]
MatrixAt(h) == [i \in 1..Len(h[MatrixRef]) |-> h[h[MatrixRef][i]]]

\* the result keeps the caller's array
variablesCopy_Alias(h, fresh) == [heap |-> h, ref |-> VariablesRef]

\* [...variables]: a new array with the same elements
variablesCopy(h, fresh) ==
  [heap |-> [a \in 1..fresh |-> IF a = fresh THEN h[VariablesRef] ELSE h[a]],
   ref |-> fresh]

\* buildPreviewResult on the heap: the heap after the call and the result,
\* whose arrays are references
buildPreviewResultAt(h) ==
  LET r == buildPreviewResult(VariablesAt(h), MatrixAt(h))
      top == Len(h)
      vc == variablesCopy(h, top + 1)
  IN  IF r = NoResult THEN [heap |-> h, result |-> NoResult]
      ELSE [heap |-> [a \in 1..(top + 3) |->
                        IF a = top + 2 THEN r[1].dependencia_x
                        ELSE IF a = top + 3 THEN r[1].motricidad_y
                        ELSE IF a <= Len(vc.heap) THEN vc.heap[a]
                        ELSE <<>>],
            result |-> << [r[1] EXCEPT !.variables = vc.ref,
                                       !.dependencia_x = top + 2,
                                       !.motricidad_y = top + 3] >>]

AliasValues == {Fin(1), Fin(2)}

InitAlias ==
  /\ \E n \in 1..MaxN :
       \E S \in SUBSET OffDiag(n) :
         /\ Cardinality(S) <= MaxNonZero
         /\ \E f \in [S -> AliasValues] :
              /\ matrix = SquareMatrix(n, S, f, Zero)
              /\ variables = [i \in 1..n |-> NameAt(i)]
  /\ heap = HeapOf(variables, matrix)
  /\ xy = <<>>
  /\ result = NoResult
  /\ rows = <<>>
  /\ parsed = <<>>
  /\ csv = <<>>
  /\ names = <<>>
  /\ page = NoPage
  /\ sent = <<>>
  /\ before = <<>>
  /\ args = <<>>
  /\ files = <<>>
  /\ pc = "caller"

\* the caller calls buildPreviewResult with its two arrays
CallBuildPreviewResultAt ==
  /\ pc = "caller"
  /\ heap' = buildPreviewResultAt(heap).heap
  /\ result' = buildPreviewResultAt(heap).result
  /\ pc' = "built"
  /\ UNCHANGED <<variables, matrix, xy, rows, parsed, csv, names, page, sent,
                 before, files, args>>

\* afterwards the caller renames a variable in place
MutateVariable ==
  /\ pc = "built"
  /\ \E k \in 1..Len(heap[VariablesRef]) :
       heap' = [heap EXCEPT ![VariablesRef][k] = NameAt(Len(NameChars))]
  /\ pc' = "mutated"
  /\ UNCHANGED <<variables, matrix, xy, result, rows, parsed, csv, names, page,
                 sent, before, files, args>>

\* or appends a variable to its list
PushVariable ==
  /\ pc = "built"
  /\ heap' = [heap EXCEPT ![VariablesRef] = Append(@, NameAt(Len(NameChars)))]
  /\ pc' = "mutated"
  /\ UNCHANGED <<variables, matrix, xy, result, rows, parsed, csv, names, page,
                 sent, before, files, args>>

\* or writes a cell of its matrix in place
MutateCell ==
  /\ pc = "built"
  /\ \E i \in 1..Len(heap[MatrixRef]) : \E j \in 1..Len(heap[heap[MatrixRef][i]]) :
       heap' = [heap EXCEPT ![heap[MatrixRef][i]][j] = Fin(9)]
  /\ pc' = "mutated"
  /\ UNCHANGED <<variables, matrix, xy, result, rows, parsed, csv, names, page,
                 sent, before, files, args>>

NextAlias == CallBuildPreviewResultAt \/ MutateVariable \/ PushVariable \/ MutateCell

SpecAlias == InitAlias /\ [][NextAlias]_vars

(***************************************************************************)
(* The heatmap table (renderHeatmapContent): the intensity t of a cell.    *)
(* The heatmap comes from a JSON response, so its numbers are finite; it   *)
(* has at most MaxVars variables.                                          *)
(***************************************************************************)
\* a - b on finite numbers
JsSub(a, b) == Frac(a.n * b.d - b.n * a.d, a.d * b.d)

\* a / b on finite numbers: a division by zero gives NaN or an infinity
JsDiv(a, b) ==
  IF b.n = 0 THEN (IF a.n = 0 THEN NaN ELSE IF a.n > 0 THEN PosInf ELSE NegInf)
  ELSE IF b.n > 0 THEN Frac(a.n * b.d, a.d * b.n)
  ELSE Frac(-(a.n * b.d), a.d * (-b.n))

\* x || 1
OrOne(x) == IF x.t = "nan" \/ (x.t = "fin" /\ x.n = 0) THEN Fin(1) ELSE x

\* the intensity without "|| 1"
heatmapIntensity_NoGuard(value, min, max) ==
  JsDiv(JsSub(value, min), JsSub(max, min))

\* (value - min) / ((max - min) || 1)
heatmapIntensity(value, min, max) ==
  JsDiv(JsSub(value, min), OrOne(JsSub(max, min)))

\* the intensities of the table, row by row
renderHeatmapContent(hm) ==
  [i \in 1..Len(hm.variables) |-> [j \in 1..Len(hm.variables) |->
     heatmapIntensity(hm.matrix[i][j], hm.scale.min, hm.scale.max)]]

HeatValues == {Zero, Fin(1), Fin(2), Fin(3)}
ScaleMins == {Fin(-1), Zero, Fin(1)}
ScaleMaxs == {Zero, Fin(1), Fin(3), Fin(4)}

InitHeatmap ==
  /\ \E n \in 1..MaxVars :
       \E f \in [OffDiag(n) -> HeatValues] :
         \E lo \in ScaleMins : \E hi \in ScaleMaxs :
           /\ hi.n >= lo.n
           /\ page = [PageDefault EXCEPT
                        !.projectId = <<1>>, !.step = 4,
                        !.heatmap = <<HeatmapOut([i \in 1..n |-> NameAt(i)],
                                                 SquareMatrix(n, OffDiag(n), f, Zero),
                                                 lo, hi)>>]
  /\ variables = <<>>
  /\ matrix = <<>>
  /\ xy = <<>>
  /\ result = NoResult
  /\ rows = <<>>
  /\ parsed = <<>>
  /\ csv = <<>>
  /\ names = <<>>
  /\ sent = <<>>
  /\ before = <<>>
  /\ args = <<>>
  /\ files = <<>>
  /\ heap = <<>>
  /\ pc = "heatmap"

\* the table is rendered; rows holds the intensities
RenderHeatmap ==
  /\ pc = "heatmap"
  /\ rows' = renderHeatmapContent(page.heatmap[1])
  /\ pc' = "rendered"
  /\ UNCHANGED <<variables, matrix, xy, result, parsed, csv, names, page, sent,
                 before, files, heap, args>>

NextHeatmap == RenderHeatmap

SpecHeatmap == InitHeatmap /\ [][NextHeatmap]_vars

(***************************************************************************)
(* Calls of loadGraph with any threshold: args holds the arguments of the  *)
(* call, before the page as it was when the call was made.                 *)
(***************************************************************************)
Thresholds ==
  {Zero, Fin(1), Frac(3, 2), Fin(-1), Frac(-1, 2), NaN, PosInf, NegInf}

InitGraph ==
  /\ \E proj \in {<<>>, <<1>>} :
       \E g \in {<<>>, <<GraphOut(Zero, TRUE)>>} :
         \E e \in {<<>>, <<HttpError>>} :
           \E loading \in BOOLEAN :
             page = [PageDefault EXCEPT !.projectId = proj, !.step = 4, !.graph = g,
                                        !.graphError = e, !.graphLoading = loading]
  /\ \E w \in Thresholds : \E d \in BOOLEAN :
       args = <<[minWeight |-> w, isDirected |-> d]>>
  /\ variables = <<>>
  /\ matrix = <<>>
  /\ xy = <<>>
  /\ result = NoResult
  /\ rows = <<>>
  /\ parsed = <<>>
  /\ csv = <<>>
  /\ names = <<>>
  /\ sent = <<>>
  /\ before = <<>>
  /\ files = <<>>
  /\ heap = <<>>
  /\ pc = "call"

\* loadGraph up to its await, or to its return when it sends no request
CallLoadGraph ==
  /\ pc = "call"
  /\ before' = <<page>>
  /\ LET lg == loadGraph(page, args[1].minWeight, args[1].isDirected)
     IN  /\ page' = lg.page
         /\ sent' = IF lg.request THEN Append(sent, "graph") ELSE sent
         /\ pc' = IF lg.request THEN "graph" ELSE "returned"
  /\ UNCHANGED <<variables, matrix, xy, result, rows, parsed, csv, names, files,
                 heap, args>>

\* the graph request settles
LoadGraphSettles ==
  /\ pc = "graph"
  /\ \E ok \in BOOLEAN :
       page' = graphSettled(page, ok, GraphOut(args[1].minWeight, args[1].isDirected))
  /\ pc' = "returned"
  /\ UNCHANGED <<variables, matrix, xy, result, rows, parsed, csv, names, sent,
                 before, files, heap, args>>

NextGraph == CallLoadGraph \/ LoadGraphSettles

SpecGraph == InitGraph /\ [][NextGraph]_vars

(***************************************************************************)
(* The graph the server projects from the stored matrix (its code is not   *)
(* part of the page).  One node per variable, identified by its 0-based    *)
(* index.  Directed: one link per ordered pair (i, j), i # j, with         *)
(* matrix[i][j] >= minWeight.  Undirected: the two cells of a pair are     *)
(* merged into one link, which carries the larger of the two weights.      *)
(***************************************************************************)
\* the test with > in place of >=
linkPasses_Strict(w, minWeight) == JsLt(minWeight, w)

\* matrix[i][j] >= minWeight
linkPasses(w, minWeight) == JsGe(w, minWeight)

JsMax(a, b) == IF JsGe(a, b) THEN a ELSE b

\* the ordered pairs of 1..n, row by row
PairsInOrder(n) == [k \in 1..(n * n) |-> <<((k - 1) \div n) + 1, ((k - 1) % n) + 1>>]

\* the weight of the link from i to j
linkWeight(m, i, j, isDirected) ==
  IF isDirected THEN m[i][j] ELSE JsMax(m[i][j], m[j][i])

project(m, vs, minWeight, isDirected) ==
  LET n == Len(vs)
      kept(p) == /\ IF isDirected THEN p[1] # p[2] ELSE p[1] < p[2]
                 /\ linkPasses(linkWeight(m, p[1], p[2], isDirected), minWeight)
      ps == SelectSeq(PairsInOrder(n), kept)
  IN  [nodes |-> [i \in 1..n |-> [id |-> i - 1, name |-> vs[i]]],
       links |-> [k \in 1..Len(ps) |->
                    [source |-> ps[k][1] - 1, target |-> ps[k][2] - 1,
                     weight |-> linkWeight(m, ps[k][1], ps[k][2], isDirected)]]]

(***************************************************************************)
(* Projections of one stored matrix with two thresholds lo <= hi and one   *)
(* directed flag.  The matrix is n-by-n, its diagonal 0, with at most      *)
(* MaxNonZero off-diagonal cells different from 0; cells and thresholds    *)
(* are values of a scale, finite and not negative.                         *)
(***************************************************************************)
Weights == {Fin(1), Fin(2), Frac(5, 2)}
MinWeights == {Zero, Fin(1), Frac(3, 2), Fin(2), Fin(3)}

InitProject ==
  /\ \E n \in 1..MaxN :
       \E S \in SUBSET OffDiag(n) :
         /\ Cardinality(S) <= MaxNonZero
         /\ \E f \in [S -> Weights] :
              /\ matrix = SquareMatrix(n, S, f, Zero)
              /\ variables = [i \in 1..n |-> NameAt(i)]
  /\ \E lo \in MinWeights : \E hi \in MinWeights : \E d \in BOOLEAN :
       /\ JsGe(hi, lo)
       /\ args = <<[lo |-> lo, hi |-> hi, isDirected |-> d]>>
  /\ xy = <<>>
  /\ result = NoResult
  /\ rows = <<>>
  /\ parsed = <<>>
  /\ csv = <<>>
  /\ names = <<>>
  /\ page = NoPage
  /\ sent = <<>>
  /\ before = <<>>
  /\ heap = <<>>
  /\ files = <<>>
  /\ pc = "stored"

\* the graph of the matrix with each of the two thresholds
CallProject ==
  /\ pc = "stored"
  /\ result' = <<[lo |-> project(matrix, variables, args[1].lo, args[1].isDirected),
                  hi |-> project(matrix, variables, args[1].hi, args[1].isDirected)]>>
  /\ pc' = "projected"
  /\ UNCHANGED <<variables, matrix, xy, rows, parsed, csv, names,
                 page, sent, before, files, heap, args>>

NextProject == CallProject

SpecProject == InitProject /\ [][NextProject]_vars

(***************************************************************************)
(* Local edits of the page: setVarName, addVar, removeVar and setCell,     *)
(* each followed by the effect on variables.length when the length has     *)
(* changed, and saveMatrix, which obtains the authoritative result.        *)
(* Indices are 0-based as in the code.  args is the list of the edits      *)
(* made so far, before the variables and the matrix as they were before    *)
(* the last of them.                                                       *)
(***************************************************************************)
MaxEdits == 3      \* editing session: at most MaxEdits edits

\* prev.filter((_, index) => index !== idx)
WithoutIndex(s, idx) ==
  IF idx \in 0..(Len(s) - 1)
  THEN [k \in 1..(Len(s) - 1) |-> IF k <= idx THEN s[k] ELSE s[k + 1]]
  ELSE s

setVarName(vs, idx, name) ==
  [k \in 1..Len(vs) |-> IF k - 1 = idx THEN name ELSE vs[k]]

\* [...prev, `Var ${prev.length + 1}`]
addVar(vs) == Append(vs, StrV(VarWord \o NatChars(Len(vs) + 1)))

\* removeVar that filters the rows only
removeVar_RowOnly(vs, m, idx) ==
  [variables |-> WithoutIndex(vs, idx), matrix |-> WithoutIndex(m, idx)]

removeVar(vs, m, idx) ==
  [variables |-> WithoutIndex(vs, idx),
   matrix |-> [r \in 1..Len(WithoutIndex(m, idx)) |->
                 WithoutIndex(WithoutIndex(m, idx)[r], idx)]]

\* setCell that stores the value on the diagonal too
setCell_Any(m, i, j, value) ==
  [r \in 1..Len(m) |-> [c \in 1..Len(m[r]) |->
     IF r - 1 = i /\ c - 1 = j THEN value ELSE m[r][c]]]

setCell(m, i, j, value) ==
  [r \in 1..Len(m) |-> [c \in 1..Len(m[r]) |->
     IF r - 1 = i /\ c - 1 = j THEN (IF i = j THEN Zero ELSE value) ELSE m[r][c]]]

\* the effect on variables.length, run when the length has changed
resizeEffect(m, oldLen, newLen) ==
  IF newLen # oldLen THEN resizeMatrix(m, newLen) ELSE m

\* useMemo: if (result) return null; return buildPreviewResult(...)
previewResult(res, vs, m) ==
  IF res # NoResult THEN NoResult ELSE buildPreviewResult(vs, m)

\* const analysis = result ?? previewResult
analysis(res, vs, m) == IF res # NoResult THEN res ELSE previewResult(res, vs, m)

\* the indices the edits of the model address: the first two and the last;
\* the cells: the first of the diagonal and the two far corners
EditIndices(n) == {0, 1, n - 1} \cap (0..(n - 1))
EditCells(n) == {<<0, 0>>, <<0, n - 1>>, <<n - 1, 0>>}
EditValues == {Fin(1), Fin(2)}
EditNames == {StrV(<<"A">>)}

Edit(op, i, j, value) == [op |-> op, i |-> i, j |-> j, value |-> value]

InitEdit ==
  /\ variables = DefaultVariables
  /\ matrix = DefaultMatrix
  /\ result = NoResult
  /\ \E proj \in {<<>>, <<1>>} : page = [PageDefault EXCEPT !.projectId = proj]
  /\ args = <<>>
  /\ before = <<>>
  /\ xy = <<>>
  /\ rows = <<>>
  /\ parsed = <<>>
  /\ csv = <<>>
  /\ names = <<>>
  /\ sent = <<>>
  /\ heap = <<>>
  /\ files = <<>>
  /\ pc = "page"

Remember == before' = <<[variables |-> variables, matrix |-> matrix]>>

SetVarName ==
  /\ pc = "page" /\ Len(args) < MaxEdits
  /\ \E idx \in {0} : \E name \in EditNames :
       /\ variables' = setVarName(variables, idx, name)
       /\ args' = Append(args, Edit("setVarName", idx, 0, name))
  /\ Remember
  /\ UNCHANGED <<matrix, xy, result, rows, parsed, pc, csv, names, page, sent,
                 files, heap>>

AddVar ==
  /\ pc = "page" /\ Len(args) < MaxEdits
  /\ variables' = addVar(variables)
  /\ matrix' = resizeEffect(matrix, Len(variables), Len(variables) + 1)
  /\ args' = Append(args, Edit("addVar", 0, 0, Zero))
  /\ Remember
  /\ UNCHANGED <<xy, result, rows, parsed, pc, csv, names, page, sent, files, heap>>

\* the button is disabled while variables.length <= 1
RemoveVar ==
  /\ pc = "page" /\ Len(args) < MaxEdits
  /\ Len(variables) > 1
  /\ \E idx \in EditIndices(Len(variables)) :
       \E r \in {removeVar(variables, matrix, idx)} :
         /\ variables' = r.variables
         /\ matrix' = resizeEffect(r.matrix, Len(variables), Len(r.variables))
         /\ args' = Append(args, Edit("removeVar", idx, 0, Zero))
  /\ Remember
  /\ UNCHANGED <<xy, result, rows, parsed, pc, csv, names, page, sent, files, heap>>

SetCell ==
  /\ pc = "page" /\ Len(args) < MaxEdits
  /\ \E c \in EditCells(Len(variables)) : \E value \in EditValues :
       /\ matrix' = setCell(matrix, c[1], c[2], value)
       /\ args' = Append(args, Edit("setCell", c[1], c[2], value))
  /\ Remember
  /\ UNCHANGED <<variables, xy, result, rows, parsed, pc, csv, names, page, sent,
                 files, heap>>

\* saveMatrix with its requests answered: the matrix is stored, compute
\* stores the result, the heatmap and the graph, then step 4 is shown
SaveMatrix ==
  /\ pc = "page"
  /\ page.projectId # <<>>
  /\ result' = ComputeOut(variables, matrix)
  /\ page' = [page EXCEPT !.step = 4,
                          !.heatmap = <<HeatmapOut(variables, matrix, Zero, Fin(3))>>,
                          !.heatmapError = <<>>,
                          !.graph = <<GraphOut(page.minW, page.directed)>>,
                          !.graphError = <<>>]
  /\ UNCHANGED <<variables, matrix, xy, rows, parsed, pc, csv, names, sent, before,
                 files, heap, args>>

NextEdit == SetVarName \/ AddVar \/ RemoveVar \/ SetCell \/ SaveMatrix

SpecEdit == InitEdit /\ [][NextEdit]_vars

(***************************************************************************)
(* The graph controls of step 4: the threshold input                       *)
(* (handleMinWeightChange) and the directed checkbox (setDirected), each   *)
(* followed by the effect on [minW, directed, loadGraph, projectId, step], *)
(* which calls loadGraph when one of them has changed.  sent is the list   *)
(* of the graph requests issued, each pending until its response arrives;  *)
(* responses arrive in any order.  args is the list of the inputs made.    *)
(***************************************************************************)
MaxInputs == 3     \* graph controls: at most MaxInputs inputs

\* handleMinWeightChange that stores Number(raw) as it is
handleMinWeightChange_Raw(raw) == ToNumber(raw)

\* the value handleMinWeightChange stores in minW
handleMinWeightChange(raw) ==
  IF ~IsFinite(ToNumber(raw)) \/ JsLt(ToNumber(raw), Zero) THEN Zero
  ELSE ToNumber(raw)

\* the effect: if (!projectId || step !== 4) return; loadGraph(minW, directed)
graphEffect(pg) ==
  IF pg.projectId = <<>> \/ pg.step # 4 THEN [page |-> pg, request |-> FALSE]
  ELSE loadGraph(pg, pg.minW, pg.directed)

GraphRequest(pg) ==
  [minWeight |-> pg.minW, isDirected |-> pg.directed, state |-> "pending"]

RawInputs ==
  {<<"2">>, <<"1", ".", "5">>, <<>>, <<"-", "1">>, <<"x">>, InfinityWord}

InitControls ==
  /\ \E st \in {3, 4} : page = [PageDefault EXCEPT !.projectId = <<1>>, !.step = st]
  /\ sent = <<>>
  /\ args = <<>>
  /\ variables = <<>>
  /\ matrix = <<>>
  /\ xy = <<>>
  /\ result = NoResult
  /\ rows = <<>>
  /\ parsed = <<>>
  /\ csv = <<>>
  /\ names = <<>>
  /\ before = <<>>
  /\ files = <<>>
  /\ heap = <<>>
  /\ pc = "controls"

\* the page with the control changed, then the effect when a value changed
Changed(pg) ==
  IF pg.minW = page.minW /\ pg.directed = page.directed
  THEN [page |-> pg, request |-> FALSE]
  ELSE graphEffect(pg)

HandleMinWeightChange ==
  /\ pc = "controls" /\ Len(args) < MaxInputs
  /\ \E raw \in RawInputs :
       \E c \in {Changed([page EXCEPT !.minW = handleMinWeightChange(raw)])} :
         /\ page' = c.page
         /\ sent' = IF c.request THEN Append(sent, GraphRequest(c.page)) ELSE sent
         /\ args' = Append(args, [op |-> "minW", raw |-> raw])
  /\ UNCHANGED <<variables, matrix, xy, result, rows, parsed, pc, csv, names,
                 before, files, heap>>

SetDirected ==
  /\ pc = "controls" /\ Len(args) < MaxInputs
  /\ \E c \in {Changed([page EXCEPT !.directed = ~page.directed])} :
       /\ page' = c.page
       /\ sent' = IF c.request THEN Append(sent, GraphRequest(c.page)) ELSE sent
       /\ args' = Append(args, [op |-> "directed", raw |-> <<>>])
  /\ UNCHANGED <<variables, matrix, xy, result, rows, parsed, pc, csv, names,
                 before, files, heap>>

\* the response of one pending request arrives: loadGraph after its await
GraphSettles ==
  /\ pc = "controls"
  /\ \E k \in 1..Len(sent) : \E ok \in BOOLEAN :
       /\ sent[k].state = "pending"
       /\ page' = graphSettled(page, ok, GraphOut(sent[k].minWeight, sent[k].isDirected))
       /\ sent' = [sent EXCEPT ![k].state = IF ok THEN "ok" ELSE "failed"]
  /\ UNCHANGED <<variables, matrix, xy, result, rows, parsed, pc, csv, names,
                 before, files, heap, args>>

NextControls == HandleMinWeightChange \/ SetDirected \/ GraphSettles

SpecControls == InitControls /\ [][NextControls]_vars

(***************************************************************************)
(* Inputs of the engine with finite cells only: an n-by-n matrix with a    *)
(* diagonal of 0 and at most MaxCells off-diagonal cells different from    *)
(* 0, among them Number.MAX_VALUE and -Number.MAX_VALUE, the finite        *)
(* numbers whose sum with themselves is not finite.                        *)
(***************************************************************************)
MaxCells == 3      \* finite engine inputs: at most MaxCells cells differ from 0

FiniteValues == {Fin(1), Frac(1, 2), MaxValue, NegMaxValue}

InitFinite ==
  /\ \E n \in 1..MaxN :
       \E S \in SUBSET OffDiag(n) :
         /\ Cardinality(S) <= MaxCells
         /\ \E f \in [S -> FiniteValues] :
              /\ matrix = SquareMatrix(n, S, f, Zero)
              /\ variables = [i \in 1..n |-> NameAt(i)]
  /\ xy = <<>>
  /\ result = NoResult
  /\ rows = <<>>
  /\ parsed = <<>>
  /\ csv = <<>>
  /\ names = <<>>
  /\ page = NoPage
  /\ sent = <<>>
  /\ before = <<>>
  /\ args = <<>>
  /\ heap = <<>>
  /\ files = <<>>
  /\ pc = "input"

SpecFinite == InitFinite /\ [][NextEngine]_vars

(***************************************************************************)
(* The scale manager: openScaleManager on the active scale.  args is       *)
(* <<s>>, the active scale; page holds showScaleModal, scaleBusy,          *)
(* scaleError and scaleValues; xy is <<v, parity>>, the loop variable and  *)
(* the parity of the iterations not recorded; rows is vals, the entries    *)
(* listed so far.  The loop is one step per iteration.  Beyond MaxEntries  *)
(* entries the model no longer records the entries and the loop variable:  *)
(* it keeps the parity of the number of further iterations.                *)
(***************************************************************************)
MaxEntries == 8    \* scale manager: at most MaxEntries entries are recorded

\* a <= b on numbers
JsLe(a, b) ==
  IF a.t = "nan" \/ b.t = "nan" THEN FALSE
  ELSE ~JsLt(b, a)

NoLabels == [k \in {} |-> <<>>]

\* labels ? labels[key] ?? labels[String(key)] : undefined, then desc ?? ""
description(labels, key) ==
  IF key \in DOMAIN labels THEN labels[key] ELSE <<>>

ScaleSteps == {Fin(1), Fin(2), Frac(1, 2), Zero, Fin(-1)}

ActiveScales ==
  { [min_value |-> lo, max_value |-> hi, step |-> st, labels |-> lb] :
      lo \in {Zero, Fin(1)}, hi \in {Zero, Fin(2), Fin(3)}, st \in ScaleSteps,
      lb \in {NoLabels, (Fin(1) :> <<"a">>)} }

\* the labels of the response of /scalesets/{id}; <<>> when it has none
DetailLabels == {<<>>, <<(Zero :> <<"z">>)>>}

ScalePage ==
  [showScaleModal |-> FALSE, scaleBusy |-> FALSE, scaleError |-> <<>>,
   scaleValues |-> <<>>, labels |-> NoLabels]

InitScale ==
  /\ \E s \in ActiveScales : args = <<s>>
  /\ page = ScalePage
  /\ xy = <<>>
  /\ rows = <<>>
  /\ variables = <<>>
  /\ matrix = <<>>
  /\ result = NoResult
  /\ parsed = <<>>
  /\ csv = <<>>
  /\ names = <<>>
  /\ sent = <<>>
  /\ before = <<>>
  /\ files = <<>>
  /\ heap = <<>>
  /\ pc = "scale"

\* openScaleManager up to its await
OpenScaleManager ==
  /\ pc = "scale" /\ Len(args) = 1
  /\ page' = [page EXCEPT !.showScaleModal = TRUE, !.scaleError = <<>>,
                          !.scaleBusy = TRUE]
  /\ pc' = "detail"
  /\ UNCHANGED <<variables, matrix, xy, result, rows, parsed, csv, names,
                 sent, before, files, heap, args>>

\* the request settles (a failure is swallowed: detail stays null); the
\* labels are detail?.labels ?? s.labels, and the loop starts at min_value
DetailSettles ==
  /\ pc = "detail"
  /\ \E ok \in BOOLEAN : \E dl \in DetailLabels :
       page' = [page EXCEPT !.labels =
                  IF ok /\ dl # <<>> THEN dl[1] ELSE args[1].labels]
  /\ xy' = <<args[1].min_value, 0>>
  /\ rows' = <<>>
  /\ pc' = "loop"
  /\ UNCHANGED <<variables, matrix, result, parsed, csv, names,
                 sent, before, files, heap, args>>

\* one iteration: v <= s.max_value holds; vals.push(...); v += s.step
LoopStep ==
  /\ pc = "loop"
  /\ JsLe(xy[1], args[1].max_value)
  /\ IF Len(rows) < MaxEntries
     THEN /\ rows' = Append(rows, [value |-> xy[1],
                                   description |-> description(page.labels, xy[1])])
          /\ xy' = <<JsAdd(xy[1], args[1].step), xy[2]>>
     ELSE /\ rows' = rows
          /\ xy' = <<xy[1], 1 - xy[2]>>
  /\ UNCHANGED <<variables, matrix, result, parsed, pc, csv, names,
                 page, sent, before, files, heap, args>>

\* v <= s.max_value fails: setScaleValues(vals), then finally
LoopEnd ==
  /\ pc = "loop"
  /\ ~JsLe(xy[1], args[1].max_value)
  /\ page' = [page EXCEPT !.scaleValues = rows, !.scaleBusy = FALSE]
  /\ pc' = "finished"
  /\ UNCHANGED <<variables, matrix, xy, result, rows, parsed, csv, names,
                 sent, before, files, heap, args>>

NextScale == OpenScaleManager \/ DetailSettles \/ LoopStep \/ LoopEnd

\* the request settles, and the loop, synchronous code, runs on
SpecScale ==
  InitScale /\ [][NextScale]_vars
    /\ WF_vars(DetailSettles) /\ WF_vars(LoopStep) /\ WF_vars(LoopEnd)

(***************************************************************************)
(* The snapshot load: the effect on [projectId].  page.projectId changes   *)
(* by the nav:project event; the cleanup of the effect sets the cancelled  *)
(* flag of the load in flight and a new load starts.  sent is the list of  *)
(* the loads, each with its project, its cancelled flag, varsFromMatrix    *)
(* and the await it is at: "meta", "matrix", "status", then (compute)      *)
(* "compute", "heatmap", "graph", and "end".  before is the list of the    *)
(* graph requests of the effect on [minW, directed, loadGraph, projectId,  *)
(* step], args the list of the projects selected.  Project name,           *)
(* description and scale id are not part of the state modelled.            *)
(***************************************************************************)
MaxSelections == 2   \* snapshot load: at most MaxSelections nav:project events

Projects == {1, 2}

\* what the server stores for a project
Stored(p) ==
  IF p = 1
  THEN [variables |-> <<NameAt(1), NameAt(2)>>,
        matrix |-> <<<<Zero, Fin(1)>>, <<Fin(2), Zero>>>>]
  ELSE [variables |-> <<NameAt(3), NameAt(4)>>,
        matrix |-> <<<<Zero, Fin(2)>>, <<Zero, Zero>>>>]

Load(p) == [project |-> p, cancelled |-> FALSE, varsFromMatrix |-> FALSE, at |-> "meta"]

\* setStep((prev) => (prev < s ? s : prev))
AtLeast(prev, s) == IF prev < s THEN s ELSE prev

\* the graph effect after a render in which projectId or step has changed
GraphEffectRuns(pg) ==
  (pg.projectId # page.projectId \/ pg.step # page.step)
    /\ graphEffect(pg).request

\* page' and before' for the page pg of the next render
Render(pg) ==
  IF GraphEffectRuns(pg)
  THEN /\ page' = graphEffect(pg).page
       /\ before' = Append(before, [project |-> pg.projectId[1], state |-> "pending"])
  ELSE /\ page' = pg
       /\ before' = before

InitLoad ==
  /\ variables = DefaultVariables
  /\ matrix = DefaultMatrix
  /\ result = NoResult
  /\ \E st \in {1, 4} : page = [PageDefault EXCEPT !.step = st]
  /\ sent = <<>>
  /\ before = <<>>
  /\ args = <<>>
  /\ xy = <<>>
  /\ rows = <<>>
  /\ parsed = <<>>
  /\ csv = <<>>
  /\ names = <<>>
  /\ heap = <<>>
  /\ files = <<>>
  /\ pc = "load"

\* onNavProject, the cleanup of the running effect and the new effect
OnNavProject ==
  /\ pc = "load" /\ Len(args) < MaxSelections
  /\ \E id \in Projects :
       /\ page.projectId # <<id>>
       /\ Render([page EXCEPT !.projectId = <<id>>, !.step = AtLeast(page.step, 2)])
       /\ sent' = Append([k \in 1..Len(sent) |-> [sent[k] EXCEPT !.cancelled = TRUE]],
                         Load(id))
       /\ args' = Append(args, id)
  /\ UNCHANGED <<variables, matrix, xy, result, rows, parsed, pc, csv, names,
                 files, heap>>

\* the metadata request settles
LoadMetadata ==
  /\ pc = "load"
  /\ \E k \in 1..Len(sent) : \E ok \in BOOLEAN :
       /\ sent[k].at = "meta"
       /\ sent' = [sent EXCEPT ![k].at =
                     IF ok /\ ~sent[k].cancelled THEN "matrix" ELSE "end"]
  /\ UNCHANGED <<variables, matrix, xy, result, rows, parsed, pc, csv, names,
                 page, before, files, heap, args>>

\* the matrix request settles: if (!cancelled) { setVariables, setMatrix,
\* setStep }, with the effect on variables.length; then the status request
LoadMatrix ==
  /\ pc = "load"
  /\ \E k \in 1..Len(sent) : \E ok \in BOOLEAN :
       /\ sent[k].at = "matrix"
       /\ IF ok /\ ~sent[k].cancelled
          THEN /\ variables' = Stored(sent[k].project).variables
               /\ matrix' = resizeEffect(Stored(sent[k].project).matrix,
                                         Len(variables),
                                         Len(Stored(sent[k].project).variables))
               /\ Render([page EXCEPT !.step = AtLeast(page.step, 3)])
               /\ sent' = [sent EXCEPT ![k].at = "status", ![k].varsFromMatrix = TRUE]
          ELSE /\ sent' = [sent EXCEPT ![k].at = "status"]
               /\ UNCHANGED <<variables, matrix, page, before>>
  /\ UNCHANGED <<xy, result, rows, parsed, pc, csv, names, files, heap, args>>

\* what the status request answers: it fails, or it tells whether the matrix
\* is complete, with or without the variables
StatusResponses ==
  {[ok |-> FALSE, complete |-> FALSE, withVariables |-> FALSE]} \cup
  {[ok |-> TRUE, complete |-> c, withVariables |-> w] : c, w \in BOOLEAN}

\* the status request settles; compute() up to its await when complete
LoadStatus ==
  /\ pc = "load"
  /\ \E k \in 1..Len(sent) : \E st \in StatusResponses :
       /\ sent[k].at = "status"
       /\ IF ~st.ok \/ sent[k].cancelled
          THEN /\ sent' = [sent EXCEPT ![k].at = "end"]
               /\ UNCHANGED <<variables, matrix, page>>
          ELSE /\ IF st.withVariables /\ ~sent[k].varsFromMatrix
                  THEN /\ variables' = Stored(sent[k].project).variables
                       /\ matrix' = resizeEffect(matrix, Len(variables),
                                       Len(Stored(sent[k].project).variables))
                  ELSE UNCHANGED <<variables, matrix>>
               /\ IF st.complete
                  THEN /\ page' = [page EXCEPT !.heatmapError = <<>>, !.graphError = <<>>]
                       /\ sent' = [sent EXCEPT ![k].at = "compute"]
                  ELSE /\ page' = page
                       /\ sent' = [sent EXCEPT ![k].at = "end"]
  /\ UNCHANGED <<xy, result, rows, parsed, pc, csv, names, before, files, heap, args>>

\* compute(): the compute request settles; setResult, setHeatmapLoading
LoadCompute ==
  /\ pc = "load"
  /\ \E k \in 1..Len(sent) : \E ok \in BOOLEAN :
       /\ sent[k].at = "compute"
       /\ IF ok
          THEN /\ result' = ComputeOut(Stored(sent[k].project).variables,
                                       Stored(sent[k].project).matrix)
               /\ page' = [page EXCEPT !.heatmapLoading = TRUE]
               /\ sent' = [sent EXCEPT ![k].at = "heatmap"]
          ELSE /\ sent' = [sent EXCEPT ![k].at = "end"]
               /\ UNCHANGED <<result, page>>
  /\ UNCHANGED <<variables, matrix, xy, rows, parsed, pc, csv, names, before,
                 files, heap, args>>

\* compute(): the heatmap request settles; then loadGraph(minW, directed) of
\* the render the load started in
LoadHeatmap ==
  /\ pc = "load"
  /\ \E k \in 1..Len(sent) : \E ok \in BOOLEAN :
       /\ sent[k].at = "heatmap"
       /\ page' = loadGraph(
            IF ok
            THEN [page EXCEPT !.heatmap = <<HeatmapOut(Stored(sent[k].project).variables,
                                                       Stored(sent[k].project).matrix,
                                                       Zero, Fin(3))>>,
                              !.heatmapError = <<>>, !.heatmapLoading = FALSE]
            ELSE [page EXCEPT !.heatmap = <<>>, !.heatmapError = <<HttpError>>,
                              !.heatmapLoading = FALSE],
            page.minW, page.directed).page
       /\ sent' = [sent EXCEPT ![k].at = "graph"]
  /\ UNCHANGED <<variables, matrix, xy, result, rows, parsed, pc, csv, names,
                 before, files, heap, args>>

\* the graph of a project as the server answers it
ProjectGraph(p, minWeight, isDirected) ==
  [project |-> p, min_weight |-> minWeight, directed |-> isDirected]

\* compute(): the graph request settles; back in the effect, setStep(4)
LoadGraph ==
  /\ pc = "load"
  /\ \E k \in 1..Len(sent) : \E ok \in BOOLEAN :
       /\ sent[k].at = "graph"
       /\ Render([graphSettled(page, ok,
                     ProjectGraph(sent[k].project, page.minW, page.directed))
                  EXCEPT !.step = 4])
       /\ sent' = [sent EXCEPT ![k].at = "end"]
  /\ UNCHANGED <<variables, matrix, xy, result, rows, parsed, pc, csv, names,
                 files, heap, args>>

\* a graph request of the effect settles
EffectGraph ==
  /\ pc = "load"
  /\ \E j \in 1..Len(before) : \E ok \in BOOLEAN :
       /\ before[j].state = "pending"
       /\ page' = graphSettled(page, ok,
                    ProjectGraph(before[j].project, page.minW, page.directed))
       /\ before' = [before EXCEPT ![j].state = "settled"]
  /\ UNCHANGED <<variables, matrix, xy, result, rows, parsed, pc, csv, names,
                 sent, files, heap, args>>

NextLoad ==
  \/ OnNavProject \/ LoadMetadata \/ LoadMatrix \/ LoadStatus
  \/ LoadCompute \/ LoadHeatmap \/ LoadGraph \/ EffectGraph

SpecLoad == InitLoad /\ [][NextLoad]_vars

(***************************************************************************)
(* Reference definitions used to state the properties of the engine.      *)
(***************************************************************************)
IsSquareN(m, n) == Len(m) = n /\ \A i \in 1..n : Len(m[i]) = n

\* the sum of the cells of m at the positions P
RECURSIVE SumCells(_, _)
SumCells(m, P) ==
  IF P = {} THEN Zero
  ELSE LET p == CHOOSE q \in P : TRUE
       IN  JsAdd(m[p[1]][p[2]], SumCells(m, P \ {p}))

\* the sum of the finite cells of m at the positions P, a missing cell being 0
RECURSIVE SumFiniteCells(_, _)
SumFiniteCells(m, P) ==
  IF P = {} THEN Zero
  ELSE LET p == CHOOSE q \in P : TRUE
           c == Cell(m, p[1], p[2])
       IN  JsAdd(IF IsFinite(c) THEN c ELSE Zero, SumFiniteCells(m, P \ {p}))

RECURSIVE SumSeq(_)
SumSeq(s) == IF s = <<>> THEN Zero ELSE JsAdd(Head(s), SumSeq(Tail(s)))

\* len * a for a count len >= 1
MulLen(a, len) == IF a.t = "fin" THEN Frac(a.n * len, a.d) ELSE a

RowOthers(n, i) == {<<i, j>> : j \in (1..n) \ {i}}
ColOthers(n, j) == {<<i, j>> : i \in (1..n) \ {j}}

UsableCell(c) == c.t = "fin" /\ c.n # 0

(***************************************************************************)
(* C1.  For every n-by-n matrix computeXY returns driving[i] = the sum of  *)
(* matrix[i][j] over j # i and dependency[j] = the sum of matrix[i][j]     *)
(* over i # j; the diagonal cells contribute to neither, whatever they     *)
(* hold.                                                                   *)
(***************************************************************************)
C1_ComputeXYSums ==
  (pc # "input" /\ IsSquareN(matrix, Len(matrix))) =>
     LET n == Len(matrix)
         r == xy[1]
     IN  /\ DOMAIN r.driving = 1..n
         /\ DOMAIN r.dependency = 1..n
         /\ \A i \in 1..n : r.driving[i] = SumCells(matrix, RowOthers(n, i))
         /\ \A j \in 1..n : r.dependency[j] = SumCells(matrix, ColOthers(n, j))

\* a 3-by-3 matrix with a nonzero diagonal whose first row sums to 1 + 2
C1_Witness ==
  /\ pc # "input"
  /\ IsSquareN(matrix, 3)
  /\ matrix[1][1] = Fin(5)
  /\ matrix[1][2] = Fin(1)
  /\ matrix[1][3] = Fin(2)
  /\ xy[1].driving[1] = Fin(3)
  /\ xy[1].dependency[3] = Fin(2)

(***************************************************************************)
(* C2.  quadrantLabel returns Determinante exactly when y >= yCut and      *)
(* x < xCut, Reguladora exactly when y >= yCut and x >= xCut, Resultado    *)
(* exactly when y < yCut and x >= xCut and Autonoma exactly when           *)
(* y < yCut and x < xCut, and buildPreviewResult labels variable i with    *)
(* quadrantLabel(dependency[i], driving[i], x_cut, y_cut).  Stated for the *)
(* arguments buildPreviewResult passes.                                    *)
(***************************************************************************)
C2_QuadrantExactly ==
  (pc = "done" /\ result # NoResult) =>
     LET r == result[1]
     IN  \A i \in 1..Len(r.variables) :
           LET x == r.dependencia_x[i]
               y == r.motricidad_y[i]
               label == quadrantLabel(x, y, r.x_cut, r.y_cut)
           IN  /\ (label = "Determinante") <=> (JsGe(y, r.y_cut) /\ JsLt(x, r.x_cut))
               /\ (label = "Reguladora") <=> (JsGe(y, r.y_cut) /\ JsGe(x, r.x_cut))
               /\ (label = "Resultado") <=> (JsLt(y, r.y_cut) /\ JsGe(x, r.x_cut))
               /\ (label = "Autonoma") <=> (JsLt(y, r.y_cut) /\ JsLt(x, r.x_cut))
               /\ (\A k \in 1..Len(r.variables) : k > i => r.variables[k] # r.variables[i])
                     => r.quadrants[r.variables[i]] = label

\* what the code does ensure: the four cases when no argument is NaN
C2_QuadrantExactlyNoNaN ==
  (pc = "done" /\ result # NoResult) =>
     LET r == result[1]
     IN  \A i \in 1..Len(r.variables) :
           LET x == r.dependencia_x[i]
               y == r.motricidad_y[i]
               label == quadrantLabel(x, y, r.x_cut, r.y_cut)
           IN  (x.t # "nan" /\ y.t # "nan" /\ r.x_cut.t # "nan" /\ r.y_cut.t # "nan") =>
                 /\ (label = "Determinante") <=> (JsGe(y, r.y_cut) /\ JsLt(x, r.x_cut))
                 /\ (label = "Reguladora") <=> (JsGe(y, r.y_cut) /\ JsGe(x, r.x_cut))
                 /\ (label = "Resultado") <=> (JsLt(y, r.y_cut) /\ JsGe(x, r.x_cut))
                 /\ (label = "Autonoma") <=> (JsLt(y, r.y_cut) /\ JsLt(x, r.x_cut))
                 /\ (x = r.x_cut /\ y = r.y_cut) => label = "Reguladora"


(***************************************************************************)
(* C3.  In every non-null result over n variables n * x_cut is the sum of  *)
(* dependencia_x and n * y_cut the sum of motricidad_y (the cuts are the   *)
(* arithmetic means); computeCut of an empty vector is 0.                  *)
(***************************************************************************)
C3_CutsAreMeans ==
  /\ computeCut(<<>>) = Zero
  /\ (pc = "done" /\ result # NoResult) =>
        LET r == result[1]
            n == Len(r.variables)
        IN  /\ MulLen(r.x_cut, n) = SumSeq(r.dependencia_x)
            /\ MulLen(r.y_cut, n) = SumSeq(r.motricidad_y)

\* three variables whose dependencies 1, 0, 1 have the mean 2/3, not an integer
C3_Witness ==
  /\ pc = "done"
  /\ result # NoResult
  /\ Len(result[1].variables) = 3
  /\ result[1].dependencia_x = <<Fin(1), Zero, Fin(1)>>
  /\ result[1].x_cut = Frac(2, 3)

(***************************************************************************)
(* C4.  buildPreviewResult returns null whenever the variable list is      *)
(* empty or the matrix is not square with side variables.length, a matrix  *)
(* with variables.length rows one of which has another length included.    *)
(***************************************************************************)
C4_NullUnlessSquare ==
  (pc = "done" /\ (Len(variables) = 0 \/ ~IsSquareN(matrix, Len(variables))))
     => result = NoResult

\* what the code does ensure: null when the list is empty or the row count differs
C4_NullOnRowCount ==
  (pc = "done" /\ (Len(variables) = 0 \/ Len(matrix) # Len(variables)))
     => result = NoResult

(***************************************************************************)
(* C5.  For a matrix of the right shape buildPreviewResult returns null    *)
(* exactly when every off-diagonal cell is zero or not finite, whatever    *)
(* the diagonal holds.                                                     *)
(***************************************************************************)
C5_NullIffNoSignal ==
  (pc = "done" /\ Len(variables) >= 1 /\ IsSquareN(matrix, Len(variables))) =>
     ((result = NoResult) <=>
        (\A p \in OffDiag(Len(variables)) : ~UsableCell(matrix[p[1]][p[2]])))

\* a nonzero diagonal and off-diagonal cells that are zero or not finite: null
C5_Witness ==
  /\ pc = "done"
  /\ IsSquareN(matrix, 3)
  /\ Len(variables) = 3
  /\ matrix[2][2] = Fin(5)
  /\ matrix[1][2] = NaN
  /\ matrix[3][1] = PosInf
  /\ result = NoResult

(***************************************************************************)
(* C6.  In every non-null result a non-finite or missing cell contributes  *)
(* 0: each entry of dependencia_x and motricidad_y is the sum of the       *)
(* finite off-diagonal cells only, so all entries and both cuts are        *)
(* finite.                                                                 *)
(***************************************************************************)
C6_NonFiniteContributesZero ==
  (pc = "done" /\ result # NoResult) =>
     LET r == result[1]
         n == Len(r.variables)
     IN  /\ \A i \in 1..n :
              /\ r.motricidad_y[i] = SumFiniteCells(matrix, RowOthers(n, i))
              /\ r.dependencia_x[i] = SumFiniteCells(matrix, ColOthers(n, i))
         /\ IsFinite(r.x_cut)
         /\ IsFinite(r.y_cut)

\* what the code does ensure: a missing cell contributes 0
C6_MissingContributesZero ==
  (pc = "done" /\ result # NoResult
     /\ \A i \in 1..Len(matrix) : \A j \in 1..Len(matrix[i]) : IsFinite(matrix[i][j])) =>
     LET r == result[1]
         n == Len(r.variables)
     IN  \A i \in 1..n :
           /\ r.motricidad_y[i] = SumFiniteCells(matrix, RowOthers(n, i))
           /\ r.dependencia_x[i] = SumFiniteCells(matrix, ColOthers(n, i))

(***************************************************************************)
(* Reference definitions used to state the properties of the importer.    *)
(***************************************************************************)
\* the cell at the 1-based column i of a row, a hole when the row ends before
RawCell(row, i) == IF i \in 1..Len(row) THEN row[i] ELSE Hole

BlankCell(c) ==
  \/ c.t \in {"hole", "null", "undef"}
  \/ c.t = "str" /\ \A i \in 1..Len(c.s) : c.s[i] = " "

TextOf(c) == IF BlankCell(c) THEN <<>> ELSE Trim(ToStr(c))

HeaderOf(tbl) == SubSeq(tbl[1], 2, Len(tbl[1]))

HeaderValid(tbl) ==
  /\ Len(tbl) >= 1
  /\ Len(HeaderOf(tbl)) >= 1
  /\ \A k \in 1..Len(HeaderOf(tbl)) : ~BlankCell(HeaderOf(tbl)[k])

\* the table rows after the header that hold a non-blank cell
DataRows(tbl) ==
  {r \in 2..Len(tbl) : \E c \in 1..Len(tbl[r]) : ~BlankCell(tbl[r][c])}

\* the k-th of them
DataRow(tbl, k) ==
  tbl[CHOOSE r \in DataRows(tbl) : Cardinality({x \in DataRows(tbl) : x < r}) = k - 1]

\* header valid and as many data rows as header names
WellCounted(tbl) ==
  HeaderValid(tbl) /\ Cardinality(DataRows(tbl)) = Len(HeaderOf(tbl))

NumericCell(c) ==
  \/ c.t = "fin"
  \/ BlankCell(c)
  \/ c.t = "str" /\ ToNumber(ReplaceComma(Trim(c.s))).t = "fin"

ExpectedNumber(c) ==
  IF c.t = "fin" THEN c
  ELSE IF BlankCell(c) THEN Zero
  ELSE ToNumber(ReplaceComma(Trim(c.s)))

RowNumeric(row, n) == \A c \in 1..n : NumericCell(RawCell(row, c + 1))

LabelMismatch(tbl, k) ==
  /\ TextOf(RawCell(DataRow(tbl, k), 1)) # <<>>
  /\ TextOf(RawCell(DataRow(tbl, k), 1)) # TextOf(HeaderOf(tbl)[k])

(***************************************************************************)
(* C7.  Every data cell is normalised by normalizeNumberCell: a finite     *)
(* number is kept, a string is trimmed, its decimal comma replaced and     *)
(* parsed, a blank, null or absent cell gives 0; any other cell raises a   *)
(* non-numeric-value error that cites the cell's 1-based coordinates in    *)
(* the table (header row and label column counted), and no dataset is      *)
(* returned.  Stated for the tables that pass the header and row-count     *)
(* checks.                                                                 *)
(***************************************************************************)
C7_NormalisedOrCited ==
  (pc = "parsed" /\ WellCounted(rows)) =>
     LET d == parsed[1]
         n == Len(HeaderOf(rows))
     IN  /\ d.ok => \A k \in 1..n : \A c \in 1..n :
                       /\ NumericCell(RawCell(DataRow(rows, k), c + 1))
                       /\ d.matrix[k][c] = ExpectedNumber(RawCell(DataRow(rows, k), c + 1))
         /\ (\E k \in 1..n : ~RowNumeric(DataRow(rows, k), n)) => ~d.ok
         /\ d.error.kind = "nonNumeric" =>
               /\ d.error.a \in DataRows(rows)
               /\ d.error.b \in 2..(n + 1)
               /\ ~NumericCell(RawCell(rows[d.error.a], d.error.b))

\* what the code does ensure: the row cited is the position among the
\* non-blank rows, the header counted
C7_CitedAmongDataRows ==
  (pc = "parsed" /\ WellCounted(rows)) =>
     LET d == parsed[1]
         n == Len(HeaderOf(rows))
     IN  /\ d.ok => \A k \in 1..n : \A c \in 1..n :
                       /\ NumericCell(RawCell(DataRow(rows, k), c + 1))
                       /\ d.matrix[k][c] = ExpectedNumber(RawCell(DataRow(rows, k), c + 1))
         /\ (\E k \in 1..n : ~RowNumeric(DataRow(rows, k), n)) => ~d.ok
         /\ d.error.kind = "nonNumeric" =>
               /\ d.error.a - 1 \in 1..n
               /\ d.error.b \in 2..(n + 1)
               /\ ~NumericCell(RawCell(DataRow(rows, d.error.a - 1), d.error.b))

(***************************************************************************)
(* C8.  parseMatrixTable counts the rows after the header that hold a      *)
(* non-blank cell; if that count M differs from the header length N it     *)
(* raises an error reporting N and M, otherwise a returned matrix has N    *)
(* rows of N numbers.  Blank rows are never counted.  Stated for the       *)
(* tables that pass the header check.                                      *)
(***************************************************************************)
C8_RowCount ==
  (pc = "parsed" /\ HeaderValid(rows)) =>
     LET d == parsed[1]
         n == Len(HeaderOf(rows))
         m == Cardinality(DataRows(rows))
     IN  /\ m # n => d = Failed(Err("rowCount", n, m, Undef, Undef))
         /\ m = n => d.error.kind # "rowCount"
         /\ d.ok => /\ Len(d.matrix) = n
                    /\ \A k \in 1..n :
                         /\ Len(d.matrix[k]) = n
                         /\ \A c \in 1..n : d.matrix[k][c].t = "fin"

\* header ["", "A", "B"], a blank row and one data row: expected 2x2, found 1
C8_Witness ==
  /\ pc = "parsed"
  /\ Len(rows) = 3
  /\ rows[1] = <<StrV(<<>>), NameAt(1), NameAt(2)>>
  /\ rows[2] = BlankRow
  /\ DataRows(rows) = {3}
  /\ parsed[1].error = Err("rowCount", 2, 1, Undef, Undef)

(***************************************************************************)
(* C9.  parseMatrixTable rejects a table whose header (first row without   *)
(* its first cell) is empty, and rejects one where some header name is     *)
(* blank with an error naming the 1-based position of that name; when it   *)
(* succeeds the returned variables are the header names in header order.   *)
(***************************************************************************)
C9_HeaderChecked ==
  pc = "parsed" =>
     LET d == parsed[1]
     IN  IF Len(rows) = 0 THEN ~d.ok
         ELSE LET h == HeaderOf(rows)
                  blank == {k \in 1..Len(h) : BlankCell(h[k])}
              IN  /\ Len(h) = 0 => d = Failed(Err("noHeader", 0, 0, Undef, Undef))
                  /\ blank # {} =>
                       d = Failed(Err("missingName",
                                      CHOOSE k \in blank : \A x \in blank : k <= x,
                                      0, Undef, Undef))
                  /\ d.ok => d.variables = [k \in 1..Len(h) |-> StrV(TextOf(h[k]))]

\* what the code does ensure: the same when no header cell is an empty slot
C9_HeaderCheckedNoHole ==
  (pc = "parsed" /\ Len(rows) >= 1
     /\ \A k \in 1..Len(HeaderOf(rows)) : HeaderOf(rows)[k].t # "hole") =>
     LET d == parsed[1]
         h == HeaderOf(rows)
         blank == {k \in 1..Len(h) : BlankCell(h[k])}
     IN  /\ Len(h) = 0 => d = Failed(Err("noHeader", 0, 0, Undef, Undef))
         /\ blank # {} =>
              d = Failed(Err("missingName",
                             CHOOSE k \in blank : \A x \in blank : k <= x,
                             0, Undef, Undef))
         /\ d.ok => d.variables = [k \in 1..Len(h) |-> StrV(TextOf(h[k]))]

C11_DiagonalZero ==
  (pc = "parsed" /\ WellCounted(rows)) =>
     LET d == parsed[1]
         n == Len(HeaderOf(rows))
     IN  /\ d.ok => \A i \in 1..n : d.matrix[i][i] = Zero
         /\ (\A k \in 1..n :
                /\ ~LabelMismatch(rows, k)
                /\ RawCell(DataRow(rows, k), k + 1).t = "fin"
                /\ \A c \in (1..n) \ {k} : NumericCell(RawCell(DataRow(rows, k), c + 1)))
            => d.ok

\* what the code does ensure: a diagonal cell is normalised like any other
C11_DiagonalKept ==
  (pc = "parsed" /\ WellCounted(rows)) =>
     LET d == parsed[1]
         n == Len(HeaderOf(rows))
     IN  d.ok => \A i \in 1..n :
                   d.matrix[i][i] = ExpectedNumber(RawCell(DataRow(rows, i), i + 1))

(***************************************************************************)
(* C12.  Round trip: a dataset of n >= 1 names and an n-by-n matrix of     *)
(* numbers, written by datasetToCsvFiles and read back by                  *)
(* parseCsvVariables (parseVariablesRows) and parseCsvMatrix               *)
(* (parseMatrixTable), gives the original names in the same order and the  *)
(* original numbers, with the diagonal forced to 0.                        *)
(***************************************************************************)
C12_RoundTrip ==
  pc = "read" =>
     LET n == Len(variables)
     IN  /\ names[1].ok
         /\ names[1].names = variables
         /\ parsed[1].ok
         /\ parsed[1].variables = variables
         /\ parsed[1].matrix =
              [i \in 1..n |-> [j \in 1..n |-> IF i = j THEN Zero ELSE matrix[i][j]]]

PlainName(nm) ==
  /\ \A k \in 1..Len(nm.s) : nm.s[k] \notin {Comma, NL}
  /\ CsvCell(nm.s) = nm

\* what the code does ensure: names free of separators that read back as
\* themselves come back with the matrix as it is, the diagonal included
C12_RoundTripPlain ==
  (pc = "read" /\ \A i \in 1..Len(variables) : PlainName(variables[i])) =>
     /\ names[1] = NamesRead(variables)
     /\ parsed[1] = Dataset(variables, matrix)

(***************************************************************************)
(* C13.  parseVariablesRows treats the first row as a header only when     *)
(* one of its cells is name, variable or nombre (trimmed, in any case);    *)
(* then the first row is skipped and that column is read.  With no header  *)
(* the first column of every row, the first included, is read.  In both    *)
(* cases blank names are dropped and the others keep their row order; an   *)
(* empty table gives the empty list.                                       *)
(***************************************************************************)
IsHeaderWord(c) == ~BlankCell(c) /\ Lower(TextOf(c)) \in HeaderWords

\* the non-blank texts of column c in the rows from..Len(tbl), in row order
RECURSIVE ColumnNames(_, _, _)
ColumnNames(tbl, c, from) ==
  IF from > Len(tbl) THEN <<>>
  ELSE (IF BlankCell(RawCell(tbl[from], c)) THEN <<>>
        ELSE <<StrV(TextOf(RawCell(tbl[from], c)))>>)
       \o ColumnNames(tbl, c, from + 1)

C13_VariablesRows ==
  pc = "names" =>
     LET out == names[1].names
     IN  IF Len(rows) = 0 THEN out = <<>>
         ELSE IF \E c \in 1..Len(rows[1]) : IsHeaderWord(rows[1][c])
         THEN \E c \in 1..Len(rows[1]) :
                /\ IsHeaderWord(rows[1][c])
                /\ \A b \in 1..(c - 1) : ~IsHeaderWord(rows[1][b])
                /\ out = ColumnNames(rows, c, 2)
         ELSE out = ColumnNames(rows, 1, 1)

\* a header in the second column: its row is skipped, the blank name of
\* the second row dropped and the third row's name trimmed
C13_Witness ==
  /\ pc = "names"
  /\ Len(rows) = 3
  /\ rows[1] = <<StrV(<<"A">>), StrV(<<" ", "N", "a", "m", "e">>)>>
  /\ rows[2] = <<StrV(<<"A">>), StrV(Space)>>
  /\ rows[3] = <<Hole, StrV(<<" ", "B", " ">>)>>
  /\ names[1].names = <<StrV(<<"B">>)>>

(***************************************************************************)
(* Reference definitions used to state the properties of the import.       *)
(***************************************************************************)
CsvImport == files # <<>> /\ files[1].kind = "csv" /\ page.projectId # <<>>

\* the header of the matrix file and the names of the variables file
FileHeader == HeaderOf(CsvRows(files[1].matrixContent))
FileNames == parseCsvVariables(files[1].varsContent).names

BothFilesRead ==
  /\ parseCsvVariables(files[1].varsContent).ok
  /\ parseCsvMatrix(files[1].matrixContent).ok

SameLists(ns, h) ==
  /\ Len(ns) = Len(h)
  /\ \A k \in 1..Len(h) : ns[k] = StrV(TextOf(h[k]))

NothingApplied ==
  /\ variables = before[1].variables
  /\ matrix = before[1].matrix
  /\ result = before[1].result

ListsError == {Err("csvCount", 0, 0, Undef, Undef), Err("csvMismatch", 0, 0, Undef, Undef)}

(***************************************************************************)
(* C14.  In the two-CSV path handleImportFiles accepts the import only     *)
(* when the names of the variables file and the header of the matrix file  *)
(* have the same length and are equal position by position; otherwise it   *)
(* sets importError to a lists-do-not-match error, sends no import         *)
(* request and leaves variables, matrix, result and step unchanged.        *)
(* Stated for two files that are both read without error.                  *)
(***************************************************************************)
C14_CsvListsMatch ==
  (pc # "idle" /\ CsvImport /\ BothFilesRead) =>
     IF SameLists(FileNames, FileHeader)
     THEN Len(sent) >= 1 /\ sent[1] = "import"
     ELSE /\ sent = <<>>
          /\ page.importError # <<>>
          /\ page.importError[1] \in ListsError
          /\ NothingApplied
          /\ page.step = before[1].step

\* what the code does ensure: the same when no header cell of the matrix
\* file is an empty slot
C14_CsvListsMatchNoHole ==
  (pc # "idle" /\ CsvImport /\ BothFilesRead
     /\ \A k \in 1..Len(FileHeader) : FileHeader[k].t # "hole") =>
     IF SameLists(FileNames, FileHeader)
     THEN Len(sent) >= 1 /\ sent[1] = "import"
     ELSE /\ sent = <<>>
          /\ page.importError # <<>>
          /\ page.importError[1] \in ListsError
          /\ NothingApplied
          /\ page.step = before[1].step

(***************************************************************************)
(* C15.  In parseExcelFile, when a variables sheet exists its list of      *)
(* names replaces the header names of the matrix table only if the two     *)
(* lists have the same length; when the lengths differ the variables       *)
(* sheet is ignored and the variables returned are the header of the       *)
(* matrix table.  The matrix returned is the one parsed from the matrix    *)
(* sheet in both cases.                                                    *)
(***************************************************************************)
ExcelImport == files # <<>> /\ files[1].kind = "xlsx" /\ page.projectId # <<>>

\* the matrix sheet: the one named Matriz, or else the first sheet
MatrixSheet(wb) ==
  IF \E i \in 1..Len(wb) : wb[i].name = SheetMatriz
  THEN wb[CHOOSE i \in 1..Len(wb) : wb[i].name = SheetMatriz]
  ELSE wb[1]

VariablesSheets(wb) == {i \in 1..Len(wb) : wb[i].name = SheetVariables}

C15_VariablesSheet ==
  (pc # "idle" /\ ExcelImport /\ Len(files[1].sheets) >= 1) =>
     LET wb == files[1].sheets
         m == parseMatrixTable(MatrixSheet(wb).rows)
         out == parsed[1]
     IN  /\ out.ok = m.ok
         /\ m.ok =>
              /\ out.matrix = m.matrix
              /\ VariablesSheets(wb) = {} => out.variables = m.variables
              /\ \A i \in VariablesSheets(wb) :
                   LET listed == ColumnNames(wb[i].rows,
                                   IF \E c \in 1..Len(wb[i].rows[1]) : IsHeaderWord(wb[i].rows[1][c])
                                   THEN CHOOSE c \in 1..Len(wb[i].rows[1]) : IsHeaderWord(wb[i].rows[1][c])
                                   ELSE 1,
                                   IF \E c \in 1..Len(wb[i].rows[1]) : IsHeaderWord(wb[i].rows[1][c])
                                   THEN 2 ELSE 1)
                   IN  IF Len(wb[i].rows) = 0 THEN out.variables = m.variables
                       ELSE IF Len(listed) = Len(m.variables) THEN out.variables = listed
                       ELSE out.variables = m.variables

\* the matrix sheet names A, B and the variables sheet lists B, A: the
\* names returned are B, A
C15_Witness ==
  /\ pc # "idle"
  /\ ExcelImport
  /\ Len(files[1].sheets) = 2
  /\ files[1].sheets[1].name = SheetMatriz
  /\ files[1].sheets[2].name = SheetVariables
  /\ parseMatrixTable(files[1].sheets[1].rows).ok
  /\ parseMatrixTable(files[1].sheets[1].rows).variables = <<NameAt(1), NameAt(2)>>
  /\ parsed[1].ok
  /\ parsed[1].variables = <<NameAt(2), NameAt(1)>>

(***************************************************************************)
(* C16.  No partial application of an import: when handleImportFiles has   *)
(* finished, whichever step failed, either the import succeeded            *)
(* (variables and matrix are the imported dataset, importMessage is set,   *)
(* importError is null) or nothing was applied (variables, matrix and      *)
(* result are as before the call and importError is set).  Stated for a    *)
(* call with files and a project selected.                                 *)
(***************************************************************************)
C16_NoPartialImport ==
  (pc = "settled" /\ files # <<>> /\ page.projectId # <<>>) =>
     \/ /\ parsed[1].ok
        /\ variables = ServerSnapshot(parsed[1]).variables
        /\ Len(matrix) = Len(variables)
        /\ \A i \in 1..Len(matrix) : \A j \in 1..Len(matrix) :
             i # j => matrix[i][j] = ServerSnapshot(parsed[1]).matrix[i][j]
        /\ page.importMessage # <<>>
        /\ page.importError = <<>>
     \/ /\ NothingApplied
        /\ page.importError # <<>>
        /\ page.importMessage = <<>>

\* what the code does ensure: an error is shown or a message, never both,
\* and the message only once the dataset and a result are in place
C16_MessageOrError ==
  (pc = "settled" /\ files # <<>> /\ page.projectId # <<>>) =>
     /\ (page.importError = <<>>) # (page.importMessage = <<>>)
     /\ ~page.importing
     /\ page.importMessage # <<>> =>
          /\ variables = ServerSnapshot(parsed[1]).variables
          /\ result # NoResult
          /\ page.step = 4
     /\ (page.importError # <<>> /\ Len(sent) <= 2) => NothingApplied

(***************************************************************************)
(* C17.  buildPreviewResult does not mutate its variables and matrix       *)
(* arguments, and the arrays of its result (variables, dependencia_x,      *)
(* motricidad_y) are fresh: after the caller mutates its name list or its  *)
(* matrix, the result returned earlier reads as it did when returned.      *)
(* variables and matrix hold the arguments as they were at the call.       *)
(***************************************************************************)
C17_NoAliasing ==
  (pc \in {"built", "mutated"}) =>
     /\ pc = "built" => (VariablesAt(heap) = variables /\ MatrixAt(heap) = matrix)
     /\ result # NoResult =>
          LET r == result[1]
              inputs == 1..(2 + Len(matrix))
          IN  /\ {r.variables, r.dependencia_x, r.motricidad_y} \cap inputs = {}
              /\ Cardinality({r.variables, r.dependencia_x, r.motricidad_y}) = 3
              /\ heap[r.variables] = variables
              /\ heap[r.dependencia_x] = [j \in 1..Len(matrix) |->
                                            SumCells(matrix, ColOthers(Len(matrix), j))]
              /\ heap[r.motricidad_y] = [i \in 1..Len(matrix) |->
                                           SumCells(matrix, RowOthers(Len(matrix), i))]

\* the caller renamed its second variable after a result was returned; the
\* result still lists the names A, B
C17_Witness ==
  /\ pc = "mutated"
  /\ result # NoResult
  /\ Len(variables) = 2
  /\ VariablesAt(heap)[2] = NameAt(Len(NameChars))
  /\ heap[result[1].variables] = <<NameAt(1), NameAt(2)>>

(***************************************************************************)
(* C18.  When two variables share a name, the quadrants map of             *)
(* buildPreviewResult holds for that name the label computed for the last  *)
(* index carrying it; the map has one entry per distinct name and every    *)
(* variable listed in the result has an entry.                             *)
(***************************************************************************)
LastIndexOf(vs, name) ==
  CHOOSE k \in 1..Len(vs) : vs[k] = name /\ \A h \in (k + 1)..Len(vs) : vs[h] # name

C18_LastNameWins ==
  (pc = "done" /\ result # NoResult) =>
     LET r == result[1]
         listed == {r.variables[i] : i \in 1..Len(r.variables)}
     IN  /\ r.variables = variables
         /\ DOMAIN r.quadrants = listed
         /\ \A name \in listed :
              LET k == LastIndexOf(r.variables, name)
              IN  r.quadrants[name] =
                    quadrantLabel(r.dependencia_x[k], r.motricidad_y[k], r.x_cut, r.y_cut)

\* the first and the last variable share a name, their own labels differ,
\* and the map holds the label of the last
C18_Witness ==
  /\ pc = "done"
  /\ result # NoResult
  /\ Len(variables) >= 2
  /\ variables[Len(variables)] = variables[1]
  /\ LET r == result[1]
         n == Len(variables)
         lab(i) == quadrantLabel(r.dependencia_x[i], r.motricidad_y[i], r.x_cut, r.y_cut)
     IN  /\ lab(1) # lab(n)
         /\ r.quadrants[variables[1]] = lab(n)
         /\ Cardinality(DOMAIN r.quadrants) = n - 1

(***************************************************************************)
(* C19.  For every off-diagonal cell of the heatmap the intensity t is     *)
(* (value - min) / (max - min) when max differs from min and value - min   *)
(* when max equals min; no intensity comes from a division by zero.        *)
(* Stated as t * (max - min) = value - min, t a finite number.             *)
(***************************************************************************)
\* a * b on finite numbers
Times(a, b) == Frac(a.n * b.n, a.d * b.d)

C19_HeatmapIntensity ==
  pc = "rendered" =>
     LET hm == page.heatmap[1]
         lo == hm.scale.min
         hi == hm.scale.max
     IN  \A p \in OffDiag(Len(hm.variables)) :
           LET t == rows[p[1]][p[2]]
               value == hm.matrix[p[1]][p[2]]
           IN  /\ t.t = "fin"
               /\ hi # lo => Times(t, JsSub(hi, lo)) = JsSub(value, lo)
               /\ hi = lo => t = JsSub(value, lo)

\* a scale with max = min = 1 and a cell holding 3: the intensity is 2
C19_Witness ==
  /\ pc = "rendered"
  /\ page.heatmap[1].scale.min = Fin(1)
  /\ page.heatmap[1].scale.max = Fin(1)
  /\ Len(page.heatmap[1].variables) = 2
  /\ page.heatmap[1].matrix[1][2] = Fin(3)
  /\ rows[1][2] = Fin(2)
  /\ page.heatmap[1].matrix[2][1] = Zero
  /\ rows[2][1] = Fin(-1)

(***************************************************************************)
(* C20.  With a project selected, loadGraph called with a minWeight that   *)
(* is not finite or is negative sets graphError, clears graph to null and  *)
(* sends no graph request, leaving graphLoading as it was; a finite        *)
(* non-negative minWeight never takes this branch.                         *)
(***************************************************************************)
ThresholdError == Err("threshold", 0, 0, Undef, Undef)

C20_ThresholdChecked ==
  (pc \in {"graph", "returned"} /\ page.projectId # <<>>) =>
     LET w == args[1].minWeight
     IN  IF w.t # "fin" \/ w.n < 0
         THEN /\ pc = "returned"
              /\ page.graphError = <<ThresholdError>>
              /\ page.graph = <<>>
              /\ sent = <<>>
              /\ page.graphLoading = before[1].graphLoading
         ELSE /\ sent = <<"graph">>
              /\ page.graphError # <<ThresholdError>>
              /\ pc = "graph" => page.graphLoading

\* called with -1/2 while an earlier graph was shown and a load was
\* pending: the graph is cleared, nothing is sent, graphLoading stays true
C20_Witness ==
  /\ pc = "returned"
  /\ page.projectId # <<>>
  /\ args[1].minWeight = Frac(-1, 2)
  /\ before[1].graph # <<>>
  /\ before[1].graphLoading
  /\ page.graph = <<>>
  /\ page.graphError = <<ThresholdError>>
  /\ page.graphLoading
  /\ sent = <<>>

(***************************************************************************)
(* C21.  For a stored matrix and a directed flag, the projected graph has  *)
(* exactly one link per ordered pair (i, j), i # j, with                   *)
(* matrix[i][j] >= minWeight, carrying that weight (undirected: one link   *)
(* per pair of variables one of whose two cells passes).  Hence, of two    *)
(* thresholds lo <= hi, hi gives no more links than lo, and with           *)
(* minWeight = 0 every off-diagonal cell different from 0 is covered by a  *)
(* link.                                                                   *)
(***************************************************************************)
LinkPairs(g) ==
  {<<g.links[k].source + 1, g.links[k].target + 1>> : k \in 1..Len(g.links)}

\* the links of g are those of the threshold w, one per pair
LinksOf(g, w) ==
  LET n == Len(variables)
  IN  /\ \A a, b \in 1..Len(g.links) :
           a # b => <<g.links[a].source, g.links[a].target>> #
                    <<g.links[b].source, g.links[b].target>>
      /\ IF args[1].isDirected
         THEN /\ LinkPairs(g) = {p \in OffDiag(n) : JsGe(matrix[p[1]][p[2]], w)}
              /\ \A k \in 1..Len(g.links) :
                   g.links[k].weight =
                     matrix[g.links[k].source + 1][g.links[k].target + 1]
         ELSE LinkPairs(g) =
                {p \in OffDiag(n) : /\ p[1] < p[2]
                                    /\ \/ JsGe(matrix[p[1]][p[2]], w)
                                       \/ JsGe(matrix[p[2]][p[1]], w)}

OnlyOps(ops) == \A k \in 1..Len(args) : args[k].op \in ops

LastOp == IF Len(args) = 0 THEN "none" ELSE args[Len(args)].op

(***************************************************************************)
(* C22.  From the four initial variables, after any sequence of addVar     *)
(* and removeVar the list of variables has at least one name and its       *)
(* names are pairwise distinct.                                            *)
(***************************************************************************)
C22_UniqueNames ==
  OnlyOps({"addVar", "removeVar"}) =>
     /\ Len(variables) >= 1
     /\ \A a, b \in 1..Len(variables) : a # b => variables[a] # variables[b]

\* what does hold: the list never becomes empty
C22_AtLeastOne ==
  OnlyOps({"addVar", "removeVar"}) => Len(variables) >= 1

(***************************************************************************)
(* C23.  From the initial state, after any sequence of setCell, addVar,    *)
(* removeVar and setVarName (the effect on variables.length run), the      *)
(* matrix is n-by-n with n = variables.length and every diagonal cell is   *)
(* 0; setCell on a diagonal cell stores 0 whatever value it is given.      *)
(***************************************************************************)
C23_SquareZeroDiagonal ==
  /\ Len(matrix) = Len(variables)
  /\ \A i \in 1..Len(matrix) :
       /\ Len(matrix[i]) = Len(variables)
       /\ matrix[i][i] = Zero

\* a variable added, another removed, then setCell(0, 0, 2): the matrix
\* is 4-by-4 and its first diagonal cell is still 0
C23_Witness ==
  /\ Len(args) = 3
  /\ args[1].op = "addVar"
  /\ args[2].op = "removeVar"
  /\ args[3] = Edit("setCell", 0, 0, Fin(2))
  /\ Len(variables) = 4
  /\ Len(matrix) = 4
  /\ matrix[1][1] = Zero

(***************************************************************************)
(* C24.  Local edits keep the correspondence between variables and         *)
(* matrix.  removeVar(idx) removes variable idx, row idx and column idx,   *)
(* and the cell between two remaining variables keeps its value.  addVar   *)
(* appends one variable, leaves every existing cell unchanged and gives    *)
(* the new row and column zeros.  setCell(i, j, v) changes no cell other   *)
(* than (i, j) and leaves the variables unchanged.                         *)
(***************************************************************************)
\* the 1-based position, before the removal of the 0-based idx, of what is
\* at the 1-based position k after it
Origin(k, idx) == IF k <= idx THEN k ELSE k + 1

C24_EditFrame ==
  Len(args) > 0 =>
     LET e == args[Len(args)]
         was == before[1]
         n == Len(was.variables)
     IN  /\ e.op = "removeVar" =>
              /\ Len(variables) = n - 1
              /\ Len(matrix) = n - 1
              /\ \A k \in 1..(n - 1) :
                   /\ variables[k] = was.variables[Origin(k, e.i)]
                   /\ Len(matrix[k]) = n - 1
                   /\ \A c \in 1..(n - 1) :
                        matrix[k][c] = was.matrix[Origin(k, e.i)][Origin(c, e.i)]
         /\ e.op = "addVar" =>
              /\ Len(variables) = n + 1
              /\ Len(matrix) = n + 1
              /\ \A k \in 1..n : variables[k] = was.variables[k]
              /\ \A k \in 1..(n + 1) :
                   /\ Len(matrix[k]) = n + 1
                   /\ \A c \in 1..(n + 1) :
                        matrix[k][c] = IF k <= n /\ c <= n THEN was.matrix[k][c] ELSE Zero
         /\ e.op = "setCell" =>
              /\ variables = was.variables
              /\ Len(matrix) = n
              /\ \A k \in 1..n :
                   /\ Len(matrix[k]) = n
                   /\ \A c \in 1..n :
                        <<k, c>> # <<e.i + 1, e.j + 1>> => matrix[k][c] = was.matrix[k][c]

\* the cell from Var 1 to Var 4 set to 2, a variable added, then Var 2
\* removed: the cell is now in column 3 of row 1
C24_Witness ==
  /\ Len(args) = 3
  /\ args[1] = Edit("setCell", 0, 3, Fin(2))
  /\ args[2].op = "addVar"
  /\ args[3] = Edit("removeVar", 1, 0, Zero)
  /\ Len(variables) = 4
  /\ variables[3] = DefaultVariables[4]
  /\ matrix[1][3] = Fin(2)
  /\ matrix[1][2] = Zero

(***************************************************************************)
(* C25.  Live preview: after every local edit of the variables or the      *)
(* matrix (setCell, setVarName, addVar, removeVar) the analysis shown is   *)
(* the engine's result on the current local variables and matrix, also     *)
(* when an authoritative result was obtained earlier.                      *)
(***************************************************************************)
C25_LivePreview ==
  [][args' # args =>
       analysis(result', variables', matrix') = buildPreviewResult(variables', matrix')]_vars

\* what does hold: the preview is live while no authoritative result is held
C25_PreviewWithoutResult ==
  [][(args' # args /\ result' = NoResult) =>
       analysis(result', variables', matrix') = buildPreviewResult(variables', matrix')]_vars

(***************************************************************************)
(* C26.  When several graph requests overlap and their responses arrive    *)
(* in any order, once all of them have settled the graph state holds the   *)
(* response of the request issued last: the response of an older request   *)
(* never replaces that of a newer one.                                     *)
(***************************************************************************)
AllSettled == Len(sent) > 0 /\ \A k \in 1..Len(sent) : sent[k].state # "pending"

C26_LatestGraphWins ==
  (pc = "controls" /\ AllSettled) =>
     LET last == sent[Len(sent)]
     IN  page.graph = IF last.state = "ok"
                      THEN <<GraphOut(last.minWeight, last.isDirected)>>
                      ELSE <<>>

\* what does hold: with a single request issued, the graph is its response
C26_SingleRequest ==
  (pc = "controls" /\ AllSettled /\ Len(sent) = 1) =>
     page.graph = IF sent[1].state = "ok"
                  THEN <<GraphOut(sent[1].minWeight, sent[1].isDirected)>>
                  ELSE <<>>

(***************************************************************************)
(* C29.  After any sequence of handleMinWeightChange calls with any raw    *)
(* input, minW is a finite number >= 0 (an input that is not a finite      *)
(* number >= 0 stores 0); so every loadGraph call made with minW passes    *)
(* the threshold test, and an invalid threshold typed by the user is       *)
(* never reported through graphError.                                      *)
(***************************************************************************)
C29_MinWeightState ==
  pc = "controls" =>
     /\ IsFinite(page.minW) /\ JsGe(page.minW, Zero)
     /\ page.graphError # <<ThresholdError>>
     /\ \A k \in 1..Len(sent) :
          IsFinite(sent[k].minWeight) /\ JsGe(sent[k].minWeight, Zero)
     /\ (Len(args) > 0 /\ args[Len(args)].op = "minW") =>
          LET typed == ToNumber(args[Len(args)].raw)
          IN  page.minW = IF typed.t = "fin" /\ typed.n >= 0 THEN typed ELSE Zero

\* 2 typed, then -1: minW is 0 again, a request was sent for each change
\* and no threshold error is shown
C29_Witness ==
  /\ pc = "controls"
  /\ Len(args) = 2
  /\ args[1].raw = <<"2">>
  /\ args[2].raw = <<"-", "1">>
  /\ page.minW = Zero
  /\ Len(sent) = 2
  /\ sent[2].minWeight = Zero
  /\ page.graphError = <<>>

(***************************************************************************)
(* C28.  In every non-null result of buildPreviewResult on a matrix of     *)
(* finite cells the sum of dependencia_x equals the sum of motricidad_y,   *)
(* and x_cut equals y_cut.                                                 *)
(***************************************************************************)
AllCellsFinite(m) ==
  \A i \in 1..Len(m) : \A j \in 1..Len(m[i]) : IsFinite(m[i][j])

C28_CutsEqual ==
  (pc = "done" /\ result # NoResult /\ AllCellsFinite(matrix)) =>
     LET r == result[1]
     IN  /\ Reduce(r.dependencia_x, 1, Zero) = Reduce(r.motricidad_y, 1, Zero)
         /\ r.x_cut = r.y_cut

\* what the code does ensure: the cuts are equal when no cell is at the end
\* of the range of doubles (the sums are then the exact sums)
C28_CutsEqualInRange ==
  (pc = "done" /\ result # NoResult
     /\ \A i \in 1..Len(matrix) : \A j \in 1..Len(matrix[i]) : matrix[i][j].t = "fin") =>
     LET r == result[1]
     IN  /\ Reduce(r.dependencia_x, 1, Zero) = Reduce(r.motricidad_y, 1, Zero)
         /\ r.x_cut = r.y_cut

(***************************************************************************)
(* C30.  openScaleManager terminates for every active scale: once called,  *)
(* the loop over min_value, min_value + step, ... ends and scaleBusy is    *)
(* false again.                                                            *)
(***************************************************************************)
C30_Terminates ==
  (pc = "detail") ~> (pc = "finished" /\ ~page.scaleBusy)

\* what the code does ensure: with a step above 0 it terminates
C30_TerminatesPositiveStep ==
  (pc = "detail" /\ JsLt(Zero, args[1].step)) ~> (pc = "finished" /\ ~page.scaleBusy)

\* and the entries are then min_value + k * step for k = 0, 1, ..., all of
\* them at most max_value, with the next one above max_value
C30_OneEntryPerValue ==
  (pc = "finished") =>
     /\ ~page.scaleBusy
     /\ page.scaleValues = rows
     /\ \A k \in 1..Len(rows) :
          /\ rows[k].value = JsAdd(args[1].min_value,
                                   Frac(args[1].step.n * (k - 1), args[1].step.d))
          /\ JsLe(rows[k].value, args[1].max_value)
     /\ ~JsLe(JsAdd(args[1].min_value,
                    Frac(args[1].step.n * Len(rows), args[1].step.d)),
              args[1].max_value)

(***************************************************************************)
(* C27.  Once projectId has changed, no response of the load of the        *)
(* project selected before updates the page: a step of a load whose        *)
(* cancelled flag is set leaves variables, matrix, result, heatmap, graph  *)
(* and step as they are.                                                   *)
(***************************************************************************)
StaleLoadStep ==
  \E k \in 1..Len(sent) : sent[k].cancelled /\ sent'[k].at # sent[k].at

C27_NoStaleWrite ==
  [][StaleLoadStep =>
       /\ variables' = variables
       /\ matrix' = matrix
       /\ result' = result
       /\ page'.heatmap = page.heatmap
       /\ page'.graph = page.graph
       /\ page'.step = page.step]_vars

\* what the code does ensure: variables and matrix are not written by a
\* load whose cancelled flag is set
C27_SnapshotNotStale ==
  [][StaleLoadStep => variables' = variables /\ matrix' = matrix]_vars

====
